---- MODULE Spec2Model ----
(***************************************************************************)
(* Model of the ZkVerifier contract (contracts/zk-verifier/src/lib.rs).    *)
(*                                                                         *)
(* Byte buffers are modelled in 32-byte words drawn from Words, the word 0 *)
(* being the all-zero word: a 64-byte buffer is a pair of words, a         *)
(* 128-byte buffer a first word followed by the remaining 96 bytes.  The   *)
(* BN254 groups of the host are modelled in the exponent: a point of G1 or *)
(* G2 is its discrete logarithm modulo GroupOrder, the pairing of a and b  *)
(* is a * b, and a byte pattern that is no point of the curve decodes to   *)
(* InvalidPoint, on which every host function traps.  A trap or a panic    *)
(* aborts the whole invocation and rolls its writes back.                  *)
(***************************************************************************)
EXTENDS Integers, Sequences, FiniteSets, TLC

VARIABLES admin, vkSet, vk, vkHash, nonces, ledgerSeq, last, accepted,
          matchStore, lastMatch

vars == <<admin, vkSet, vk, vkHash, nonces, ledgerSeq, last, accepted,
          matchStore, lastMatch>>

(* ------------------------------ bounds --------------------------------- *)

MaxLedger == 1

\* The ledger sequence numbers explored where clean_nonces is studied.
MaxCleanLedger == 2

\* The number of sessions created in GeoTrustMatch.
MaxSessions == 1

\* The number of sessions created where the session ids are studied.
MaxCreated == 3

\* The number of sessions created where the life of a session is studied.
MaxLifecycle == 2

(* ------------------------- program constants --------------------------- *)

MaxIterations == 1000

MaxBatchSize == 100

MinGridSize == 1000000

MaxGridSize == 10000000

MaxCellId == 100000

ProofLen == 64

\* 2^16, and the least and greatest i32.
HalfWord == 65536

I32Max == 2147483647

I32Min == -I32Max - 1

(* ------------------------------ bytes ---------------------------------- *)

Words == {0, 1, 2}

Addresses == {"alice", "bob"}

\* Option<T>: <<>> is None, <<x>> is Some(x).
None == <<>>

Some(x) == <<x>>

IsSome(o) == Len(o) = 1

AllZero(bytes) == \A i \in 1..Len(bytes) : bytes[i] = 0

\* proof.proof.to_array(): the 64 bytes as two 32-byte words.
ProofBytes(proof) == proof.proof

\* a_bytes: the first min(64, len) bytes of the proof, i.e. all of it.
ABytes(proof_bytes) == <<proof_bytes[1], proof_bytes[2]>>

\* b_bytes: 128 zero bytes whose first 32 are proof bytes 32..63.
BBytes(proof_bytes) == <<proof_bytes[2], 0>>

(* --------------------------- curve adapter ----------------------------- *)

GroupOrder == 5

InvalidPoint == -1

\* Bn254G1Affine::from_array followed by the host's decoding: X || Y.
\* The all-zero pattern is the identity; (x, 1) is x * g1 and (x, 2) its
\* negation (same X, negated Y); every other pattern is not on the curve.
DecodeG1(bytes) ==
    IF bytes[1] = 0 /\ bytes[2] = 0 THEN 0
    ELSE IF bytes[1] # 0 /\ bytes[2] = 1 THEN bytes[1] % GroupOrder
    ELSE IF bytes[1] # 0 /\ bytes[2] = 2 THEN (GroupOrder - bytes[1]) % GroupOrder
    ELSE InvalidPoint

\* Bn254G2Affine::from_array followed by the host's decoding.
DecodeG2(bytes) ==
    IF bytes[1] = 0 /\ bytes[2] = 0 THEN 0
    ELSE IF bytes[1] = 1 /\ bytes[2] = 0 THEN 1
    ELSE IF bytes[1] = 2 /\ bytes[2] = 0 THEN 3
    ELSE IF bytes[1] = 1 /\ bytes[2] = 1 THEN 2
    ELSE IF bytes[1] = 2 /\ bytes[2] = 1 THEN 4
    ELSE InvalidPoint

Neg(p) == IF p = InvalidPoint THEN InvalidPoint ELSE (GroupOrder - p) % GroupOrder

G1Add(p, q) ==
    IF p = InvalidPoint \/ q = InvalidPoint THEN InvalidPoint
    ELSE (p + q) % GroupOrder

\* Fr::from_u256 of the u32 input, then g1_mul.
G1Mul(p, input) ==
    IF p = InvalidPoint THEN InvalidPoint
    ELSE (p * (input % GroupOrder)) % GroupOrder

RECURSIVE PairingSum(_, _)
PairingSum(g1_points, g2_points) ==
    IF g1_points = <<>> THEN 0
    ELSE (Head(g1_points) * Head(g2_points)
          + PairingSum(Tail(g1_points), Tail(g2_points))) % GroupOrder

HasInvalid(points) == \E i \in 1..Len(points) : points[i] = InvalidPoint

\* bn254.pairing_check: "trap" on a point that does not decode, otherwise
\* whether the product of the pairings is the identity of GT.
PairingCheck(g1_points, g2_points) ==
    IF HasInvalid(g1_points) \/ HasInvalid(g2_points) THEN "trap"
    ELSE IF PairingSum(g1_points, g2_points) = 0 THEN "true"
    ELSE "false"

\* env.crypto().sha256 over a buffer of words: injective on the buffers of
\* the model and never the all-zero digest.
RECURSIVE Sha256(_)
Sha256(bytes) ==
    IF bytes = <<>> THEN 1
    ELSE (Cardinality(Words) + 1) * Sha256(Tail(bytes)) + Head(bytes) + 1

(* ------------------------------ storage -------------------------------- *)

\* The instance storage of the contract: the slots Admin, VKSet, VK, VKHash
\* and Nonces, each absent (None) or holding a value.
Store == [admin |-> admin, vkSet |-> vkSet, vk |-> vk, vkHash |-> vkHash,
          nonces |-> nonces]

EmptyMap == [x \in {} |-> 0]

\* Map::set
MapSet(m, k, v) == [x \in (DOMAIN m) \cup {k} |-> IF x = k THEN v ELSE m[x]]

\* Map::try_get: Ok(Some(v)) for a key of the map and Ok(None) for a key
\* that is absent; Err only for a stored value that does not convert to
\* the value type, which no map of the two contracts holds.
\* is_country_allowed_internal reads the result with
\* unwrap_or_default().is_some(), verify with is_ok().
TryGet(m, k) ==
    [ok |-> TRUE, value |-> IF k \in DOMAIN m THEN Some(m[k]) ELSE None]

\* .get(..).unwrap_or(default)
UnwrapOr(o, default) == IF IsSome(o) THEN o[1] ELSE default

(* ------------------------------- verify -------------------------------- *)

Min(a, b) == IF a <= b THEN a ELSE b

\* compute_proof_id: SHA-256 of the 64 proof bytes.
ComputeProofId(proof) == Sha256(ProofBytes(proof))

\* Mutant: the ceiling of 1000 iterations is left out.
IcIterations_NoCeiling(proof, key) == Min(Len(proof.public_inputs), Len(key.ic))

\* max_iterations of the accumulation loop.
IcIterations(proof, key) ==
    Min(Min(Len(proof.public_inputs), Len(key.ic)), MaxIterations)

\* The loop "for i in 1..max_iterations" (0-based i, here k = i + 1) over
\* the rounds lo..hi, walked in halves: each round yields "reject" when
\* i >= vk.ic.len() and otherwise does
\* ic_sum = g1_add(ic_sum, g1_mul(ic[i], public_inputs[i])).  The result
\* carries the accumulated point and the number of rounds run to the end.
RECURSIVE IcLoop(_, _, _, _, _)
IcLoop(key, proof, lo, hi, ic_sum) ==
    IF lo > hi THEN [rejected |-> FALSE, sum |-> ic_sum, steps |-> 0]
    ELSE IF lo = hi
    THEN IF lo - 1 >= Len(key.ic)
         THEN [rejected |-> TRUE, sum |-> ic_sum, steps |-> 0]
         ELSE [rejected |-> FALSE,
               sum |-> G1Add(ic_sum, G1Mul(DecodeG1(key.ic[lo]), proof.public_inputs[lo])),
               steps |-> 1]
    ELSE LET mid == (lo + hi) \div 2
             lower == IcLoop(key, proof, lo, mid, ic_sum)
             upper == IcLoop(key, proof, mid + 1, hi, lower.sum)
         IN  IF lower.rejected THEN lower
             ELSE [rejected |-> upper.rejected, sum |-> upper.sum,
                   steps |-> lower.steps + upper.steps]

\* The input commitment: starts at ic[0], then the loop.
IcSum(key, proof) ==
    IcLoop(key, proof, 2, IcIterations(proof, key), DecodeG1(key.ic[1]))

\* c_g1: bytes 64..127 when the buffer has them; the buffer has ProofLen = 64
\* bytes, so C falls back to A.
CPoint(proof_bytes) ==
    IF ProofLen >= 128 THEN DecodeG1(<<proof_bytes[3], proof_bytes[4]>>)
    ELSE DecodeG1(ABytes(proof_bytes))

\* e(A, B) * e(-alpha, beta) * e(-C, gamma) * e(-IC_sum, delta) = 1
Groth16Check(key, proof, ic_sum) ==
    PairingCheck(
        << DecodeG1(ABytes(ProofBytes(proof))),
           Neg(DecodeG1(key.alpha_g1)),
           Neg(CPoint(ProofBytes(proof))),
           Neg(ic_sum) >>,
        << DecodeG2(BBytes(ProofBytes(proof))),
           DecodeG2(key.beta_g2),
           DecodeG2(key.gamma_g2),
           DecodeG2(key.delta_g2) >>)

\* Mutant: the grid size has no upper bound.
GridSizeOk_LowerOnly(grid_size) ==
    /\ grid_size # 0
    /\ ~(grid_size < MinGridSize)

\* Steps 8 and 9: grid size and cell id bounds.
GridSizeOk(grid_size) ==
    /\ grid_size # 0
    /\ ~(grid_size < MinGridSize \/ grid_size > MaxGridSize)

CellIdOk(cell_id) == ~(cell_id > MaxCellId)

\* Mutant: the replay lookup never finds the identity.
IsReplay_Never(nonce_map, proof_id) == FALSE

\* Mutant: the lookup is read with is_some on the value found, so that
\* only an identity of the map counts as a replay.
IsReplay_IfPresent(nonce_map, proof_id) == IsSome(TryGet(nonce_map, proof_id).value)

\* Step 10: nonces.try_get(proof_id).is_ok().  The lookup is Ok whether or
\* not the identity is in the map, so the check rejects every proof that
\* reaches it.
IsReplay(nonce_map, proof_id) == TryGet(nonce_map, proof_id).ok

Reject(st) == [result |-> "false", store |-> st]

Trap(st) == [result |-> "abort", store |-> st]

\* Step 10: mark the proof as used at the current ledger and return true.
Accept(st, proof, seq) ==
    [result |-> "true",
     store  |-> [st EXCEPT !.nonces =
                    Some(MapSet(UnwrapOr(st.nonces, EmptyMap),
                                ComputeProofId(proof), seq))]]

\* Mutant: the proof is marked as used before the circuit constraints are
\* checked, so a rejection on the bounds leaves the ledger written.
VerifyWithKey_EarlyWrite(st, key, proof, seq) ==
    IF Len(key.ic) = 0 THEN Reject(st)
    ELSE LET acc == IcSum(key, proof)
             pairing_result == Groth16Check(key, proof, acc.sum)
         IN  IF acc.rejected THEN Reject(st)
             ELSE IF pairing_result = "trap" THEN Trap(st)
             ELSE IF pairing_result = "false" THEN Reject(st)
             ELSE IF ~GridSizeOk(proof.public_inputs[2])
                  THEN Reject(Accept(st, proof, seq).store)
             ELSE IF ~CellIdOk(proof.public_inputs[1])
                  THEN Reject(Accept(st, proof, seq).store)
             ELSE IF IsReplay(UnwrapOr(st.nonces, EmptyMap), ComputeProofId(proof))
                  THEN Reject(st)
             ELSE Accept(st, proof, seq)

\* Steps 4 to 10 of verify, once the key has been loaded.
VerifyWithKey(st, key, proof, seq) ==
    IF Len(key.ic) = 0 THEN Reject(st)
    ELSE LET acc == IcSum(key, proof)
             pairing_result == Groth16Check(key, proof, acc.sum)
         IN  IF acc.rejected THEN Reject(st)
             ELSE IF pairing_result = "trap" THEN Trap(st)
             ELSE IF pairing_result = "false" THEN Reject(st)
             ELSE IF ~GridSizeOk(proof.public_inputs[2]) THEN Reject(st)
             ELSE IF ~CellIdOk(proof.public_inputs[1]) THEN Reject(st)
             ELSE IF IsReplay(UnwrapOr(st.nonces, EmptyMap), ComputeProofId(proof))
                  THEN Reject(st)
             ELSE Accept(st, proof, seq)

\* Mutant: the first public input is not compared with the expected cell id.
InputsBound_LengthOnly(proof, expected_cell_id) ==
    ~(Len(proof.public_inputs) < 2)

\* Step 1: at least two public inputs, the first being the expected cell id.
InputsBound(proof, expected_cell_id) ==
    /\ ~(Len(proof.public_inputs) < 2)
    /\ ~(proof.public_inputs[1] # expected_cell_id)

\* Step 3: storage.get("VKSet").unwrap_or(false)
KeyConfigured(st) == UnwrapOr(st.vkSet, FALSE)

\* Mutant: a missing key falls back to a built-in one.
LoadKey_Default(st) ==
    IF IsSome(st.vk) THEN st.vk
    ELSE Some([alpha_g1 |-> <<1, 1>>, beta_g2 |-> <<2, 1>>, gamma_g2 |-> <<2, 1>>,
               delta_g2 |-> <<1, 1>>, ic |-> << <<1, 2>> >>])

\* Step 3: storage.get::<VerificationKey>("VK")
LoadKey(st) == st.vk

\* ZkVerifier::verify on storage st at ledger sequence seq: the result
\* ("true", "false", or "abort" when the host traps) and the storage after.
Verify(st, proof, expected_cell_id, seq) ==
    IF ~InputsBound(proof, expected_cell_id) THEN Reject(st)
    ELSE IF AllZero(ProofBytes(proof)) THEN Reject(st)
    ELSE IF ~KeyConfigured(st) THEN Reject(st)
    ELSE IF ~IsSome(LoadKey(st)) THEN Reject(st)
    ELSE VerifyWithKey(st, LoadKey(st)[1], proof, seq)

(* -------------------------- administration ---------------------------- *)

Ok(st) == [result |-> "ok", store |-> st]

\* Mutant: require_auth is left out; any caller passes once an admin is
\* stored.
AdminAuthorised_AnyCaller(st, caller) == IsSome(st.admin)

\* storage.get("Admin").unwrap() followed by admin.require_auth(): the call
\* goes on only when an admin is stored and the caller is that address.
AdminAuthorised(st, caller) == IsSome(st.admin) /\ st.admin[1] = caller

\* ZkVerifier::init: the new admin authorises the call itself.
InitContract(st, caller, new_admin) ==
    IF caller # new_admin THEN Trap(st)
    ELSE Ok([st EXCEPT !.admin = Some(new_admin),
                       !.vkSet = Some(FALSE),
                       !.nonces = Some(EmptyMap)])

\* The loop over the first min(len, 1000) elements of ic: none is all-zero.
IcPointsNonZero(ic) ==
    \A i \in 1..Min(Len(ic), MaxIterations) : ~AllZero(ic[i])

\* Mutant: delta_g2 is not checked.
KeyStructureOk_NoDelta(key) ==
    /\ ~AllZero(key.alpha_g1)
    /\ ~AllZero(key.beta_g2)
    /\ ~AllZero(key.gamma_g2)
    /\ Len(key.ic) # 0
    /\ IcPointsNonZero(key.ic)

\* "Validate VK structure" and "Validate IC commitments".
KeyStructureOk(key) ==
    /\ ~AllZero(key.alpha_g1)
    /\ ~AllZero(key.beta_g2)
    /\ ~AllZero(key.gamma_g2)
    /\ ~AllZero(key.delta_g2)
    /\ Len(key.ic) # 0
    /\ IcPointsNonZero(key.ic)

\* The key hash that set_verification_key stores: SHA-256 of alpha_g1.
KeyHash(key) == Sha256(key.alpha_g1)

\* Mutant: when a key is already stored only its alpha_g1 is patched; the
\* other four fields of the earlier key stay.
SetVerificationKey_PatchAlpha(st, caller, key) ==
    IF ~AdminAuthorised(st, caller) THEN Trap(st)
    ELSE IF ~KeyStructureOk(key) THEN Trap(st)
    ELSE Ok([st EXCEPT !.vk = IF IsSome(st.vk)
                             THEN Some([st.vk[1] EXCEPT !.alpha_g1 = key.alpha_g1])
                             ELSE Some(key),
                       !.vkSet = Some(TRUE),
                       !.vkHash = Some(KeyHash(key))])

\* ZkVerifier::set_verification_key
SetVerificationKey(st, caller, key) ==
    IF ~AdminAuthorised(st, caller) THEN Trap(st)
    ELSE IF ~KeyStructureOk(key) THEN Trap(st)
    ELSE Ok([st EXCEPT !.vk = Some(key),
                       !.vkSet = Some(TRUE),
                       !.vkHash = Some(KeyHash(key))])

\* ZkVerifier::set_verification_key_hash
SetVerificationKeyHash(st, caller, vk_hash) ==
    IF ~AdminAuthorised(st, caller) THEN Trap(st)
    ELSE IF vk_hash = 0 THEN Trap(st)
    ELSE Ok([st EXCEPT !.vkHash = Some(vk_hash), !.vkSet = Some(TRUE)])

\* ZkVerifier::get_verification_key and get_verification_key_hash
GetVerificationKey(st) == st.vk

GetVerificationKeyHash(st) == st.vkHash

\* Mutant: only the hash is removed; the key and the flag stay.
ClearVerificationKey_HashOnly(st, caller) ==
    IF ~AdminAuthorised(st, caller) THEN Trap(st)
    ELSE Ok([st EXCEPT !.vkHash = None])

\* ZkVerifier::clear_verification_key
ClearVerificationKey(st, caller) ==
    IF ~AdminAuthorised(st, caller) THEN Trap(st)
    ELSE Ok([st EXCEPT !.vk = None, !.vkHash = None, !.vkSet = Some(FALSE)])

\* Mutant: the cutoff may equal the current ledger.
CleanNonces_Inclusive(st, caller, before_ledger, seq) ==
    IF ~AdminAuthorised(st, caller) THEN Trap(st)
    ELSE IF before_ledger = 0 THEN Trap(st)
    ELSE IF before_ledger > seq THEN Trap(st)
    ELSE Ok(st)

\* ZkVerifier::clean_nonces: the two checks, and nothing else.
CleanNonces(st, caller, before_ledger, seq) ==
    IF ~AdminAuthorised(st, caller) THEN Trap(st)
    ELSE IF before_ledger = 0 THEN Trap(st)
    ELSE IF before_ledger >= seq THEN Trap(st)
    ELSE Ok(st)

\* ZkVerifier::set_admin
SetAdmin(st, caller, new_admin) ==
    IF ~AdminAuthorised(st, caller) THEN Trap(st)
    ELSE Ok([st EXCEPT !.admin = Some(new_admin)])

(* ------------------------------- batch --------------------------------- *)

\* Mutant: the loop stops at the first item that verify rejects, so the
\* items after it get no result.
RECURSIVE BatchLoop_StopsAtFalse(_, _, _, _, _, _)
BatchLoop_StopsAtFalse(st, proofs, expected_cell_ids, lo, hi, seq) ==
    IF lo > hi THEN [result |-> "ok", results |-> <<>>, store |-> st]
    ELSE IF lo = hi
    THEN LET r == Verify(st, proofs[lo], expected_cell_ids[lo], seq)
         IN  IF r.result = "abort"
             THEN [result |-> "abort", results |-> <<>>, store |-> st]
             ELSE [result |-> "ok", results |-> <<r.result>>, store |-> r.store]
    ELSE LET mid == (lo + hi) \div 2
             lower == BatchLoop_StopsAtFalse(st, proofs, expected_cell_ids, lo, mid, seq)
             upper == BatchLoop_StopsAtFalse(lower.store, proofs, expected_cell_ids,
                                             mid + 1, hi, seq)
             stopped == \E i \in 1..Len(lower.results) : lower.results[i] = "false"
         IN  IF lower.result = "abort" THEN lower
             ELSE IF stopped THEN lower
             ELSE IF upper.result = "abort"
             THEN [result |-> "abort", results |-> <<>>, store |-> st]
             ELSE [result |-> "ok", results |-> lower.results \o upper.results,
                   store |-> upper.store]

\* The loop of verify_batch over the items lo..hi, in input order: the
\* results pushed and the storage left; a trap inside one verify aborts
\* the whole invocation. The range is walked as its lower half followed
\* by its upper half, which keeps the evaluation shallow for long batches.
RECURSIVE BatchLoop(_, _, _, _, _, _)
BatchLoop(st, proofs, expected_cell_ids, lo, hi, seq) ==
    IF lo > hi THEN [result |-> "ok", results |-> <<>>, store |-> st]
    ELSE IF lo = hi
    THEN LET r == Verify(st, proofs[lo], expected_cell_ids[lo], seq)
         IN  IF r.result = "abort"
             THEN [result |-> "abort", results |-> <<>>, store |-> st]
             ELSE [result |-> "ok", results |-> <<r.result>>, store |-> r.store]
    ELSE LET mid == (lo + hi) \div 2
             lower == BatchLoop(st, proofs, expected_cell_ids, lo, mid, seq)
             upper == BatchLoop(lower.store, proofs, expected_cell_ids,
                                mid + 1, hi, seq)
         IN  IF lower.result = "abort" \/ upper.result = "abort"
             THEN [result |-> "abort", results |-> <<>>, store |-> st]
             ELSE [result |-> "ok", results |-> lower.results \o upper.results,
                   store |-> upper.store]

\* Mutant: the batch size is not checked.
VerifyBatch_NoSizeCheck(st, proofs, expected_cell_ids, seq) ==
    LET out == BatchLoop(st, proofs, expected_cell_ids, 1, Len(proofs), seq)
    IN  IF Len(proofs) # Len(expected_cell_ids)
        THEN [result |-> "abort", results |-> <<>>, store |-> st]
        ELSE IF out.result = "abort"
        THEN [result |-> "abort", results |-> <<>>, store |-> st]
        ELSE out

\* ZkVerifier::verify_batch
VerifyBatch(st, proofs, expected_cell_ids, seq) ==
    LET max_batch_size ==
            Min(Min(Len(proofs), Len(expected_cell_ids)), MaxBatchSize)
        out == BatchLoop(st, proofs, expected_cell_ids, 1, Len(proofs), seq)
    IN  IF Len(proofs) # Len(expected_cell_ids)
        THEN [result |-> "abort", results |-> <<>>, store |-> st]
        ELSE IF Len(proofs) > max_batch_size \/ Len(expected_cell_ids) > max_batch_size
        THEN [result |-> "abort", results |-> <<>>, store |-> st]
        ELSE IF out.result = "abort"
        THEN [result |-> "abort", results |-> <<>>, store |-> st]
        ELSE out

(* --------------------------- geotrust-match ---------------------------- *)

\* The storage of a deployed GeoTrustMatch contract on which nothing has
\* been called: instance slots Admin, DefAllow, GameHub, Verifier, CntAdm
\* and NextSess, persistent slots AllowCnt and DenyCnt, and the temporary
\* entries (Session, id).
EmptyMatchStore ==
    [admin |-> None, defAllow |-> None, gameHub |-> None, verifier |-> None,
     cntAdm |-> None, allowCnt |-> None, denyCnt |-> None, nextSess |-> None,
     sessions |-> EmptyMap]

\* The outcome of an invocation of GeoTrustMatch: how it ended, the value
\* it returned, and the storage of the two contracts after it. A panic or
\* a trap rolls back every write of the invocation, in both contracts.
MatchOk(ms, vs, value) == [result |-> "ok", value |-> value, match |-> ms, store |-> vs]

MatchTrap(ms, vs) == [result |-> "abort", value |-> None, match |-> ms, store |-> vs]

\* GeoTrustMatch::init
MatchInit(ms, vs, caller, new_admin, default_allow_all) ==
    IF caller # new_admin THEN MatchTrap(ms, vs)
    ELSE MatchOk([ms EXCEPT !.admin = Some(new_admin),
                            !.defAllow = Some(default_allow_all)], vs, None)

\* GeoTrustMatch::get_admin_for_country
GetAdminForCountry(ms, country) ==
    IF IsSome(country) /\ country[1] \in DOMAIN UnwrapOr(ms.cntAdm, EmptyMap)
    THEN Some(UnwrapOr(ms.cntAdm, EmptyMap)[country[1]])
    ELSE ms.admin

\* GeoTrustMatch::require_admin_auth: does the call go on?
RequireAdminAuth(ms, caller, country) ==
    /\ IsSome(GetAdminForCountry(ms, country))
    /\ GetAdminForCountry(ms, country)[1] = caller

\* GeoTrustMatch::set_game_hub
SetGameHub(ms, vs, caller, game_hub) ==
    IF ~RequireAdminAuth(ms, caller, None) THEN MatchTrap(ms, vs)
    ELSE MatchOk([ms EXCEPT !.gameHub = Some(game_hub)], vs, None)

\* GeoTrustMatch::set_verifier
SetVerifier(ms, vs, caller, verifier) ==
    IF ~RequireAdminAuth(ms, caller, None) THEN MatchTrap(ms, vs)
    ELSE MatchOk([ms EXCEPT !.verifier = Some(verifier)], vs, None)

\* Mutant: the allow list is not consulted.
IsCountryAllowedInternal_DefaultOnly(ms, country) ==
    IF country \in DOMAIN UnwrapOr(ms.denyCnt, EmptyMap) THEN FALSE
    ELSE UnwrapOr(ms.defAllow, FALSE)

\* GeoTrustMatch::is_country_allowed_internal
IsCountryAllowedInternal(ms, country) ==
    IF IsSome(TryGet(UnwrapOr(ms.denyCnt, EmptyMap), country).value) THEN FALSE
    ELSE IF IsSome(TryGet(UnwrapOr(ms.allowCnt, EmptyMap), country).value) THEN TRUE
    ELSE UnwrapOr(ms.defAllow, FALSE)

\* Map::remove
MapRemove(m, k) == [x \in (DOMAIN m) \ {k} |-> m[x]]

\* GeoTrustMatch::set_country_allowed: the country's admin puts the
\* country on the allow list or takes it off.
SetCountryAllowed(ms, vs, caller, country, allowed) ==
    LET allow_map == UnwrapOr(ms.allowCnt, EmptyMap)
    IN  IF ~RequireAdminAuth(ms, caller, Some(country)) THEN MatchTrap(ms, vs)
        ELSE IF allowed
        THEN MatchOk([ms EXCEPT !.allowCnt = Some(MapSet(allow_map, country, TRUE))],
                     vs, None)
        ELSE MatchOk([ms EXCEPT !.allowCnt = Some(MapRemove(allow_map, country))],
                     vs, None)

\* GeoTrustMatch::set_country_admin: the main admin assigns an admin to a
\* country.
SetCountryAdmin(ms, vs, caller, country, country_admin) ==
    LET country_admins == UnwrapOr(ms.cntAdm, EmptyMap)
    IN  IF ~RequireAdminAuth(ms, caller, None) THEN MatchTrap(ms, vs)
        ELSE MatchOk([ms EXCEPT !.cntAdm =
                         Some(MapSet(country_admins, country, country_admin))],
                     vs, None)

\* GeoTrustMatch::remove_country_admin
RemoveCountryAdmin(ms, vs, caller, country) ==
    LET country_admins == UnwrapOr(ms.cntAdm, EmptyMap)
    IN  IF ~RequireAdminAuth(ms, caller, None) THEN MatchTrap(ms, vs)
        ELSE MatchOk([ms EXCEPT !.cntAdm = Some(MapRemove(country_admins, country))],
                     vs, None)

\* GeoTrustMatch::set_default_allow_all
SetDefaultAllowAll(ms, vs, caller, value) ==
    IF ~RequireAdminAuth(ms, caller, None) THEN MatchTrap(ms, vs)
    ELSE MatchOk([ms EXCEPT !.defAllow = Some(value)], vs, None)

\* GeoTrustMatch::get_country_allowed: then_some(true).
GetCountryAllowed(ms, country) ==
    IF IsCountryAllowedInternal(ms, country) THEN Some(TRUE) ELSE None

\* The Session that create_session stores.
NewSession(seq) ==
    [player1 |-> None, player2 |-> None,
     p1_cell_id |-> None, p2_cell_id |-> None,
     p1_asset_tag |-> None, p2_asset_tag |-> None,
     state |-> "Waiting", created_ledger |-> seq,
     p1_country |-> None, p2_country |-> None,
     p1_location_proof |-> None, p2_location_proof |-> None]

\* Mutant: the counter NextSess is read but never written back.
CreateSession_NoCounter(ms, vs, seq) ==
    LET session_id == UnwrapOr(ms.nextSess, 0) + 1
    IN  MatchOk([ms EXCEPT !.sessions = MapSet(ms.sessions, session_id, NewSession(seq))],
                vs, Some(session_id))

\* GeoTrustMatch::create_session.  checked_add panics only at u32::MAX,
\* which the counter does not reach within the bounds on the number of
\* sessions.
CreateSession(ms, vs, seq) ==
    LET session_id == UnwrapOr(ms.nextSess, 0) + 1
    IN  MatchOk([ms EXCEPT !.nextSess = Some(session_id),
                           !.sessions = MapSet(ms.sessions, session_id, NewSession(seq))],
                vs, Some(session_id))

\* join_session, "Verify location proof if provided": "panic" when the
\* invocation panics on the proof, "trap" when the verifier traps, else
\* "pass" with the verifier storage left by the cross-contract verify.
CheckLocationProof(ms, vs, cell_id, location_proof, seq) ==
    IF ~IsSome(location_proof) THEN [outcome |-> "pass", store |-> vs]
    ELSE LET proof == location_proof[1]
             r == Verify(vs, proof, cell_id, seq)
         IN  IF Len(proof.public_inputs) < 1 THEN [outcome |-> "panic", store |-> vs]
             ELSE IF proof.public_inputs[1] # cell_id
                  THEN [outcome |-> "panic", store |-> vs]
             ELSE IF ~IsSome(ms.verifier) THEN [outcome |-> "pass", store |-> vs]
             ELSE IF r.result = "abort" THEN [outcome |-> "trap", store |-> vs]
             ELSE IF r.result = "false" THEN [outcome |-> "panic", store |-> vs]
             ELSE [outcome |-> "pass", store |-> r.store]

\* Mutant: the result of the verifier is not looked at.
AdmitPlayer_Unverified(ms, vs, checked, caller, session_id, cell_id, asset_tag, country, location_proof, hub_ok) ==
    LET session == ms.sessions[session_id]
        as_player1 == [session EXCEPT !.player1 = Some(caller),
                                      !.p1_cell_id = Some(cell_id),
                                      !.p1_asset_tag = Some(asset_tag),
                                      !.p1_country = Some(country),
                                      !.p1_location_proof = location_proof]
        as_player2 == [session EXCEPT !.player2 = Some(caller),
                                      !.p2_cell_id = Some(cell_id),
                                      !.p2_asset_tag = Some(asset_tag),
                                      !.p2_country = Some(country),
                                      !.p2_location_proof = location_proof,
                                      !.state = "Active"]
    IN  IF session_id \notin DOMAIN ms.sessions THEN MatchTrap(ms, vs)
        ELSE IF session.state # "Waiting" THEN MatchTrap(ms, vs)
        ELSE IF ~IsSome(session.player1)
        THEN MatchOk([ms EXCEPT !.sessions[session_id] = as_player1],
                     checked.store, None)
        ELSE IF ~IsSome(session.player2)
        THEN IF session.player1 = Some(caller) THEN MatchTrap(ms, vs)
             ELSE IF IsSome(ms.gameHub) /\ ~hub_ok THEN MatchTrap(ms, vs)
             ELSE MatchOk([ms EXCEPT !.sessions[session_id] = as_player2],
                          checked.store, None)
        ELSE MatchTrap(ms, vs)

\* join_session from the session lookup on, given the outcome of the
\* proof check: the caller takes the first free player slot of a Waiting
\* session; the second player makes the session Active and, when a Game
\* Hub is configured, start_game is invoked on it (hub_ok: it returns).
AdmitPlayer(ms, vs, checked, caller, session_id, cell_id, asset_tag, country, location_proof, hub_ok) ==
    LET session == ms.sessions[session_id]
        as_player1 == [session EXCEPT !.player1 = Some(caller),
                                      !.p1_cell_id = Some(cell_id),
                                      !.p1_asset_tag = Some(asset_tag),
                                      !.p1_country = Some(country),
                                      !.p1_location_proof = location_proof]
        as_player2 == [session EXCEPT !.player2 = Some(caller),
                                      !.p2_cell_id = Some(cell_id),
                                      !.p2_asset_tag = Some(asset_tag),
                                      !.p2_country = Some(country),
                                      !.p2_location_proof = location_proof,
                                      !.state = "Active"]
    IN  IF checked.outcome # "pass" THEN MatchTrap(ms, vs)
        ELSE IF session_id \notin DOMAIN ms.sessions THEN MatchTrap(ms, vs)
        ELSE IF session.state # "Waiting" THEN MatchTrap(ms, vs)
        ELSE IF ~IsSome(session.player1)
        THEN MatchOk([ms EXCEPT !.sessions[session_id] = as_player1],
                     checked.store, None)
        ELSE IF ~IsSome(session.player2)
        THEN IF session.player1 = Some(caller) THEN MatchTrap(ms, vs)
             ELSE IF IsSome(ms.gameHub) /\ ~hub_ok THEN MatchTrap(ms, vs)
             ELSE MatchOk([ms EXCEPT !.sessions[session_id] = as_player2],
                          checked.store, None)
        ELSE MatchTrap(ms, vs)

\* GeoTrustMatch::join_session
JoinSession(ms, vs, caller, session_id, cell_id, asset_tag, country, location_proof, seq, hub_ok) ==
    IF ~IsCountryAllowedInternal(ms, country) THEN MatchTrap(ms, vs)
    ELSE AdmitPlayer(ms, vs,
                     CheckLocationProof(ms, vs, cell_id, location_proof, seq),
                     caller, session_id, cell_id, asset_tag, country,
                     location_proof, hub_ok)

\* A u32 cell id is written as its two 16-bit halves <<high, low>> where
\* resolve_match is studied, so that every value up to u32::MAX is at hand.
CellHigh(cell) == cell[1]

CellLow(cell) == cell[2]

\* "cell as i32": the same 32 bits read as a two's complement number.
AsI32(cell) ==
    IF CellHigh(cell) < HalfWord \div 2
    THEN CellHigh(cell) * HalfWord + CellLow(cell)
    ELSE (CellHigh(cell) - HalfWord) * HalfWord + CellLow(cell)

\* i32::checked_sub: None when a - b is not an i32.
CheckedSub(a, b) ==
    IF a >= 0 /\ b < 0 /\ a > I32Max + b THEN None
    ELSE IF a < 0 /\ b >= 0 /\ a < I32Min + b THEN None
    ELSE Some(a - b)

\* i32::abs.  For i32::MIN the result is not an i32: the call panics when
\* the contract is built with overflow checks and returns i32::MIN when it
\* is built without them (abs_wraps).
AbsI32(diff, abs_wraps) ==
    IF diff = I32Min THEN (IF abs_wraps THEN Some(I32Min) ELSE None)
    ELSE IF diff < 0 THEN Some(0 - diff)
    ELSE Some(diff)

\* Mutant: cell ids are compared for equality only.
CellsMatch_EqualOnly(p1_cell_id, p2_cell_id, abs_wraps) ==
    IF p1_cell_id = p2_cell_id THEN Some(TRUE) ELSE Some(FALSE)

\* "same or adjacent cell_id" as resolve_match computes it from the two
\* stored cell ids: None when the computation panics.
CellsMatch(p1_cell_id, p2_cell_id, abs_wraps) ==
    IF p1_cell_id = p2_cell_id THEN Some(TRUE)
    ELSE IF ~IsSome(p1_cell_id) \/ ~IsSome(p2_cell_id) THEN None
    ELSE LET diff == CheckedSub(AsI32(p1_cell_id[1]), AsI32(p2_cell_id[1]))
         IN  IF ~IsSome(diff) THEN None
             ELSE IF ~IsSome(AbsI32(diff[1], abs_wraps)) THEN None
             ELSE Some(AbsI32(diff[1], abs_wraps)[1] <= 1)

\* Mutant: the state of the session is not checked.
ResolveMatch_NoStateCheck(ms, vs, session_id, hub_ok, abs_wraps) ==
    LET session == ms.sessions[session_id]
        cells == CellsMatch(session.p1_cell_id, session.p2_cell_id, abs_wraps)
        matched == session.p1_asset_tag = session.p2_asset_tag /\ cells[1]
        winner == IF matched THEN session.player1 ELSE session.player2
    IN  IF session_id \notin DOMAIN ms.sessions THEN MatchTrap(ms, vs)
        ELSE IF ~IsSome(session.player1) \/ ~IsSome(session.player2)
             THEN MatchTrap(ms, vs)
        ELSE IF session.p1_asset_tag = session.p2_asset_tag /\ ~IsSome(cells)
             THEN MatchTrap(ms, vs)
        ELSE IF IsSome(ms.gameHub) /\ ~hub_ok THEN MatchTrap(ms, vs)
        ELSE MatchOk([ms EXCEPT !.sessions[session_id].state = "Ended"], vs,
                     Some([matched |-> matched, winner |-> winner]))

\* GeoTrustMatch::resolve_match.  When a Game Hub is configured end_game is
\* invoked on it (hub_ok: it returns).
ResolveMatch(ms, vs, session_id, hub_ok, abs_wraps) ==
    LET session == ms.sessions[session_id]
        cells == CellsMatch(session.p1_cell_id, session.p2_cell_id, abs_wraps)
        matched == session.p1_asset_tag = session.p2_asset_tag /\ cells[1]
        winner == IF matched THEN session.player1 ELSE session.player2
    IN  IF session_id \notin DOMAIN ms.sessions THEN MatchTrap(ms, vs)
        ELSE IF session.state # "Active" THEN MatchTrap(ms, vs)
        ELSE IF ~IsSome(session.player1) \/ ~IsSome(session.player2)
             THEN MatchTrap(ms, vs)
        ELSE IF session.p1_asset_tag = session.p2_asset_tag /\ ~IsSome(cells)
             THEN MatchTrap(ms, vs)
        ELSE IF IsSome(ms.gameHub) /\ ~hub_ok THEN MatchTrap(ms, vs)
        ELSE MatchOk([ms EXCEPT !.sessions[session_id].state = "Ended"], vs,
                     Some([matched |-> matched, winner |-> winner]))

(* ------------------------------- inputs -------------------------------- *)

\* Proof buffers: all-zero; two that satisfy the pairing equation under
\* GoodKey; one that decodes but fails it; one that is no curve point.
P(bytes, inputs) == [proof |-> bytes, public_inputs |-> inputs]

PublicInputsPool ==
    { <<MaxCellId>>,
      <<MaxCellId, MinGridSize>>,
      <<MaxCellId, MinGridSize - 1>>,
      <<MaxCellId, MaxGridSize + 1>>,
      <<MaxCellId + 1, MinGridSize>> }

\* Proof buffers: <<1, 1>> and <<2, 2>> satisfy the pairing equation under
\* GoodKey, <<2, 1>> decodes but fails it, <<0, 1>> is no curve point and
\* <<0, 0>> is the all-zero buffer.
Proofs ==
    { P(<<1, 1>>, inputs) : inputs \in PublicInputsPool }
    \cup { P(<<2, 2>>, <<MaxCellId, MaxGridSize>>),
           P(<<2, 1>>, <<MaxCellId, MinGridSize>>),
           P(<<0, 0>>, <<MaxCellId, MinGridSize>>),
           P(<<0, 1>>, <<MaxCellId, MinGridSize>>),
           P(<<0, 1>>, <<MaxCellId, MinGridSize - 1>>) }

CellIds == {MaxCellId, MaxCellId + 1}

Key(alpha, beta, gamma, delta, ic) ==
    [alpha_g1 |-> alpha, beta_g2 |-> beta, gamma_g2 |-> gamma,
     delta_g2 |-> delta, ic |-> ic]

\* alpha = 1, beta = gamma = 4, delta = 2, ic[0] = 4.
GoodKey == Key(<<1, 1>>, <<2, 1>>, <<2, 1>>, <<1, 1>>, << <<1, 2>> >>)

\* The same with a second input commitment, ic[1] = 1.
GoodKey2 == Key(<<1, 1>>, <<2, 1>>, <<2, 1>>, <<1, 1>>, << <<1, 2>>, <<1, 1>> >>)

\* A well-formed key that differs from GoodKey in all five fields.
OtherKey == Key(<<2, 1>>, <<1, 1>>, <<1, 2>>, <<2, 2>>, << <<2, 2>>, <<1, 1>> >>)

\* A key whose ic is longer than the validation loop reaches, with an
\* all-zero element behind the ceiling.
LongKey ==
    Key(<<1, 1>>, <<2, 1>>, <<2, 1>>, <<1, 1>>,
        [i \in 1..(MaxIterations + 1) |->
            IF i = MaxIterations + 1 THEN <<0, 0>> ELSE <<1, 2>>])

KeyPool ==
    { GoodKey,
      Key(<<0, 0>>, <<2, 1>>, <<2, 1>>, <<1, 1>>, << <<1, 2>> >>),
      Key(<<1, 1>>, <<0, 0>>, <<2, 1>>, <<1, 1>>, << <<1, 2>> >>),
      Key(<<1, 1>>, <<2, 1>>, <<0, 0>>, <<1, 1>>, << <<1, 2>> >>),
      Key(<<1, 1>>, <<2, 1>>, <<2, 1>>, <<0, 0>>, << <<1, 2>> >>),
      Key(<<1, 1>>, <<2, 1>>, <<2, 1>>, <<1, 1>>, << >>),
      Key(<<1, 1>>, <<2, 1>>, <<2, 1>>, <<1, 1>>, << <<1, 2>>, <<0, 0>> >>) }

HashPool == {0, KeyHash(GoodKey) + 1}

\* Batches: empty, of one and of two items, with a proof repeated, with a
\* proof that is no curve point, with a first item whose expected cell id
\* is not its first public input, and one whose lengths differ.
Batches ==
    { << <<>>, <<>> >>,
      << <<P(<<1, 1>>, <<MaxCellId, MinGridSize>>)>>, <<MaxCellId>> >>,
      << <<P(<<1, 1>>, <<MaxCellId, MinGridSize>>),
           P(<<1, 1>>, <<MaxCellId, MinGridSize>>)>>, <<MaxCellId, MaxCellId>> >>,
      << <<P(<<1, 1>>, <<MaxCellId, MinGridSize>>),
           P(<<2, 2>>, <<MaxCellId, MaxGridSize>>)>>, <<MaxCellId, MaxCellId>> >>,
      << <<P(<<2, 2>>, <<MaxCellId, MaxGridSize>>),
           P(<<1, 1>>, <<MaxCellId, MinGridSize - 1>>)>>, <<MaxCellId, MaxCellId>> >>,
      << <<P(<<1, 1>>, <<MaxCellId, MinGridSize>>),
           P(<<0, 1>>, <<MaxCellId, MinGridSize>>)>>, <<MaxCellId, MaxCellId>> >>,
      << <<P(<<1, 1>>, <<MaxCellId, MinGridSize>>),
           P(<<1, 1>>, <<MaxCellId, MinGridSize>>)>>, <<MaxCellId + 1, MaxCellId>> >>,
      << <<P(<<1, 1>>, <<MaxCellId, MinGridSize>>)>>, <<>> >> }

(* ------------------------------ actions -------------------------------- *)

\* The record of the latest invocation of ZkVerifier, when no invocation
\* of GeoTrustMatch came after it: the call, its outcome, the storage
\* and ledger sequence it started from, whether it accepted a proof buffer
\* accepted before, whether it repeats a verify that has just returned
\* true, whether it repeats the verify just before it whatever that one
\* returned, whether the key has been cleared and not installed since, the
\* proof buffers accepted before it, and whether its caller is the admin
\* that the call before it replaced through set_admin.
Call(op, caller, proofs, ids, key, num, addr, out, results) ==
    [op |-> op, caller |-> caller, proofs |-> proofs, ids |-> ids,
     key |-> key, num |-> num, addr |-> addr,
     result |-> out.result, results |-> results, pre |-> Store,
     seq |-> ledgerSeq,
     reaccepted |->
        \E i \in 1..Len(results) :
            /\ results[i] = "true"
            /\ \/ ProofBytes(proofs[i]) \in accepted
               \/ \E j \in 1..(i - 1) :
                     /\ results[j] = "true"
                     /\ ProofBytes(proofs[j]) = ProofBytes(proofs[i]),
     afterAccept |->
        /\ op = "verify"
        /\ last.op = "verify"
        /\ last.result = "true"
        /\ last.proofs = proofs
        /\ last.ids = ids,
     repeated |->
        /\ op = "verify"
        /\ last.op = "verify"
        /\ last.proofs = proofs
        /\ last.ids = ids,
     cleared |->
        IF op = "clear_verification_key" /\ out.result = "ok" THEN TRUE
        ELSE IF op = "set_verification_key" /\ out.result = "ok" THEN FALSE
        ELSE last.cleared,
     preAccepted |-> accepted,
     handover |->
        /\ last.op = "set_admin"
        /\ last.result = "ok"
        /\ last.addr # last.caller
        /\ caller = last.caller]

NoCall ==
    [op |-> "none", caller |-> "", proofs |-> <<>>, ids |-> <<>>,
     key |-> None, num |-> None, addr |-> "",
     result |-> "", results |-> <<>>,
     pre |-> [admin |-> None, vkSet |-> None, vk |-> None, vkHash |-> None,
              nonces |-> None],
     seq |-> 0, reaccepted |-> FALSE, afterAccept |-> FALSE,
     repeated |-> FALSE,
     cleared |-> FALSE, preAccepted |-> {}, handover |-> FALSE]

\* The record of the latest invocation when it was made on GeoTrustMatch:
\* the call, its outcome, and the storage of the two contracts and the
\* ledger sequence it started from.
MatchCallOn(op, caller, session_id, cell_id, location_proof, addr, country, allowed, out) ==
    [op |-> op, caller |-> caller, session_id |-> session_id,
     cell_id |-> cell_id, location_proof |-> location_proof, addr |-> addr,
     country |-> country, allowed |-> allowed,
     result |-> out.result, value |-> out.value,
     pre |-> matchStore, verifierPre |-> Store, seq |-> ledgerSeq]

\* The same for a call that takes no country and no flag.
MatchCall(op, caller, session_id, cell_id, location_proof, addr, out) ==
    MatchCallOn(op, caller, session_id, cell_id, location_proof, addr, None, None, out)

NoMatchCall ==
    [op |-> "none", caller |-> "", session_id |-> 0, cell_id |-> 0,
     location_proof |-> None, addr |-> "", country |-> None, allowed |-> None,
     result |-> "", value |-> None,
     pre |-> EmptyMatchStore,
     verifierPre |-> [admin |-> None, vkSet |-> None, vk |-> None,
                      vkHash |-> None, nonces |-> None],
     seq |-> 0]

\* The storage after an invocation of GeoTrustMatch that does not reach
\* the verifier; it is now the latest invocation.
MatchCommit(out) ==
    /\ matchStore' = out.match
    /\ last' = NoCall
    /\ UNCHANGED <<admin, vkSet, vk, vkHash, nonces, ledgerSeq, accepted>>

\* The storage after an invocation of ZkVerifier made on its own; it is
\* now the latest invocation.
Commit(out) ==
    /\ admin' = out.store.admin
    /\ vkSet' = out.store.vkSet
    /\ vk' = out.store.vk
    /\ vkHash' = out.store.vkHash
    /\ nonces' = out.store.nonces
    /\ lastMatch' = NoMatchCall
    /\ UNCHANGED matchStore

AcceptedBy(proofs, results) ==
    { ProofBytes(proofs[i]) : i \in { j \in 1..Len(results) : results[j] = "true" } }

Init ==
    /\ admin = None
    /\ vkSet = None
    /\ vk = None
    /\ vkHash = None
    /\ nonces = None
    /\ ledgerSeq = 0
    /\ last = NoCall
    /\ accepted = {}
    /\ matchStore = EmptyMatchStore
    /\ lastMatch = NoMatchCall

InitFrom(admins) ==
    \E caller \in Addresses, new_admin \in admins :
        LET out == InitContract(Store, caller, new_admin)
        IN  /\ Commit(out)
            /\ last' = Call("init", caller, <<>>, <<>>, None, None, new_admin, out, <<>>)
            /\ UNCHANGED <<ledgerSeq, accepted>>

DoInit == InitFrom(Addresses)

VerifyFrom(proofs, cell_ids) ==
    \E proof \in proofs, expected_cell_id \in cell_ids :
        LET out == Verify(Store, proof, expected_cell_id, ledgerSeq)
            results == IF out.result = "abort" THEN <<>> ELSE <<out.result>>
        IN  /\ Commit(out)
            /\ last' = Call("verify", "", <<proof>>, <<expected_cell_id>>,
                            None, None, "", out, results)
            /\ accepted' = accepted \cup AcceptedBy(<<proof>>, results)
            /\ UNCHANGED ledgerSeq

DoVerify == VerifyFrom(Proofs, CellIds)

VerifyBatchFrom(batches) ==
    \E batch \in batches :
        LET proofs == batch[1]
            expected_cell_ids == batch[2]
            out == VerifyBatch(Store, proofs, expected_cell_ids, ledgerSeq)
        IN  /\ Commit(out)
            /\ last' = Call("verify_batch", "", proofs, expected_cell_ids,
                            None, None, "", out, out.results)
            /\ accepted' = accepted \cup AcceptedBy(proofs, out.results)
            /\ UNCHANGED ledgerSeq

DoVerifyBatch == VerifyBatchFrom(Batches)

SetKeyFrom(keys) ==
    \E caller \in Addresses, key \in keys :
        LET out == SetVerificationKey(Store, caller, key)
        IN  /\ Commit(out)
            /\ last' = Call("set_verification_key", caller, <<>>, <<>>,
                            Some(key), None, "", out, <<>>)
            /\ UNCHANGED <<ledgerSeq, accepted>>

DoSetVerificationKey == SetKeyFrom(KeyPool)

DoSetVerificationKeyHash ==
    \E caller \in Addresses, vk_hash \in HashPool :
        LET out == SetVerificationKeyHash(Store, caller, vk_hash)
        IN  /\ Commit(out)
            /\ last' = Call("set_verification_key_hash", caller, <<>>, <<>>,
                            None, Some(vk_hash), "", out, <<>>)
            /\ UNCHANGED <<ledgerSeq, accepted>>

DoClearVerificationKey ==
    \E caller \in Addresses :
        LET out == ClearVerificationKey(Store, caller)
        IN  /\ Commit(out)
            /\ last' = Call("clear_verification_key", caller, <<>>, <<>>,
                            None, None, "", out, <<>>)
            /\ UNCHANGED <<ledgerSeq, accepted>>

CleanNoncesFrom(cutoffs) ==
    \E caller \in Addresses, before_ledger \in cutoffs :
        LET out == CleanNonces(Store, caller, before_ledger, ledgerSeq)
        IN  /\ Commit(out)
            /\ last' = Call("clean_nonces", caller, <<>>, <<>>,
                            None, Some(before_ledger), "", out, <<>>)
            /\ UNCHANGED <<ledgerSeq, accepted>>

DoCleanNonces == CleanNoncesFrom(0..MaxLedger)

DoSetAdmin ==
    \E caller \in Addresses, new_admin \in Addresses :
        LET out == SetAdmin(Store, caller, new_admin)
        IN  /\ Commit(out)
            /\ last' = Call("set_admin", caller, <<>>, <<>>,
                            None, None, new_admin, out, <<>>)
            /\ UNCHANGED <<ledgerSeq, accepted>>

\* The host closes a ledger: env.ledger().sequence() grows.
AdvanceLedgerTo(max_ledger) ==
    /\ ledgerSeq < max_ledger
    /\ ledgerSeq' = ledgerSeq + 1
    /\ UNCHANGED <<admin, vkSet, vk, vkHash, nonces, last, accepted,
                   matchStore, lastMatch>>

AdvanceLedger == AdvanceLedgerTo(MaxLedger)

(* GeoTrustMatch *)

VerifierAddress == "verifier"

MatchAdmins == {"alice"}

GameHubAddress == "hub"

DoMatchInit ==
    \E caller \in Addresses, new_admin \in MatchAdmins, default_allow_all \in BOOLEAN :
        LET out == MatchInit(matchStore, Store, caller, new_admin, default_allow_all)
        IN  /\ MatchCommit(out)
            /\ lastMatch' = MatchCall("init", caller, 0, 0, None, new_admin, out)

DoSetVerifier ==
    \E caller \in Addresses :
        LET out == SetVerifier(matchStore, Store, caller, VerifierAddress)
        IN  /\ MatchCommit(out)
            /\ lastMatch' = MatchCall("set_verifier", caller, 0, 0, None,
                                      VerifierAddress, out)

DoSetGameHub ==
    \E caller \in Addresses :
        LET out == SetGameHub(matchStore, Store, caller, GameHubAddress)
        IN  /\ MatchCommit(out)
            /\ lastMatch' = MatchCall("set_game_hub", caller, 0, 0, None,
                                      GameHubAddress, out)

CreateSessionUpTo(max_sessions) ==
    /\ UnwrapOr(matchStore.nextSess, 0) < max_sessions
    /\ LET out == CreateSession(matchStore, Store, ledgerSeq)
       IN  /\ MatchCommit(out)
           /\ lastMatch' = MatchCall("create_session", "", 0, 0, None, "", out)

DoCreateSession == CreateSessionUpTo(MaxSessions)

SetCountryAllowedFrom(countries) ==
    \E caller \in Addresses, country \in countries, allowed \in BOOLEAN :
        LET out == SetCountryAllowed(matchStore, Store, caller, country, allowed)
        IN  /\ MatchCommit(out)
            /\ lastMatch' = MatchCallOn("set_country_allowed", caller, 0, 0, None, "",
                                        Some(country), Some(allowed), out)

DoSetDefaultAllowAll ==
    \E caller \in Addresses, value \in BOOLEAN :
        LET out == SetDefaultAllowAll(matchStore, Store, caller, value)
        IN  /\ MatchCommit(out)
            /\ lastMatch' = MatchCallOn("set_default_allow_all", caller, 0, 0, None, "",
                                        None, Some(value), out)

SetCountryAdminFrom(countries) ==
    \E caller \in Addresses, country \in countries, country_admin \in Addresses :
        LET out == SetCountryAdmin(matchStore, Store, caller, country, country_admin)
        IN  /\ MatchCommit(out)
            /\ lastMatch' = MatchCallOn("set_country_admin", caller, 0, 0, None,
                                        country_admin, Some(country), None, out)

RemoveCountryAdminFrom(countries) ==
    \E caller \in Addresses, country \in countries :
        LET out == RemoveCountryAdmin(matchStore, Store, caller, country)
        IN  /\ MatchCommit(out)
            /\ lastMatch' = MatchCallOn("remove_country_admin", caller, 0, 0, None, "",
                                        Some(country), None, out)

\* resolve_match; any caller may invoke it.
ResolveFrom(session_ids) ==
    \E session_id \in session_ids, hub_ok \in BOOLEAN, abs_wraps \in BOOLEAN :
        LET out == ResolveMatch(matchStore, Store, session_id, hub_ok, abs_wraps)
        IN  /\ MatchCommit(out)
            /\ lastMatch' = MatchCall("resolve_match", "", session_id, 0, None, "", out)

\* join_session; when it invokes the verifier and commits, the verifier
\* has seen a verify call that returned true.
JoinFrom(session_ids, cell_ids, asset_tags, countries, location_proofs) ==
    \E caller \in Addresses, session_id \in session_ids, cell_id \in cell_ids,
       asset_tag \in asset_tags, country \in countries,
       location_proof \in location_proofs, hub_ok \in BOOLEAN :
        LET out == JoinSession(matchStore, Store, caller, session_id, cell_id,
                               asset_tag, country, location_proof, ledgerSeq, hub_ok)
            verified == /\ out.result = "ok"
                        /\ IsSome(location_proof)
                        /\ IsSome(matchStore.verifier)
        IN  /\ matchStore' = out.match
            /\ admin' = out.store.admin
            /\ vkSet' = out.store.vkSet
            /\ vk' = out.store.vk
            /\ vkHash' = out.store.vkHash
            /\ nonces' = out.store.nonces
            /\ lastMatch' = MatchCallOn("join_session", caller, session_id, cell_id,
                                        location_proof, "", Some(country), None, out)
            /\ last' = IF verified
                       THEN Call("verify", "", location_proof, <<cell_id>>, None, None,
                                 "", [result |-> "true", store |-> out.store], <<"true">>)
                       ELSE NoCall
            /\ accepted' = IF verified
                           THEN accepted \cup {ProofBytes(location_proof[1])}
                           ELSE accepted
            /\ UNCHANGED ledgerSeq

Next ==
    \/ DoInit
    \/ DoVerify
    \/ DoVerifyBatch
    \/ DoSetVerificationKey
    \/ DoSetVerificationKeyHash
    \/ DoClearVerificationKey
    \/ DoCleanNonces
    \/ DoSetAdmin
    \/ AdvanceLedger

Spec == Init /\ [][Next]_vars

\* The same contract driven with keys whose ic is longer than the
\* validation loop of set_verification_key reaches, and with a key whose
\* alpha_g1 is no curve point.
LongKeyPool ==
    { LongKey,
      Key(<<0, 1>>, <<2, 1>>, <<2, 1>>, <<1, 1>>, << <<1, 2>> >>),
      Key(<<0, 0>>, <<2, 1>>, <<2, 1>>, <<1, 1>>, << <<1, 2>> >>) }

LongKeyProofs ==
    { P(<<1, 1>>, <<MaxCellId, MinGridSize>>), P(<<2, 1>>, <<MaxCellId, MinGridSize>>) }

LongKeyBatches ==
    { << <<P(<<1, 1>>, <<MaxCellId, MinGridSize>>),
           P(<<1, 1>>, <<MaxCellId, MinGridSize>>)>>, <<MaxCellId, MaxCellId>> >> }

DoSetLongKey == SetKeyFrom(LongKeyPool)

DoVerifyLongKey == VerifyFrom(LongKeyProofs, {MaxCellId})

DoVerifyBatchLongKey == VerifyBatchFrom(LongKeyBatches)

LongKeyNext ==
    \/ DoInit
    \/ DoVerifyLongKey
    \/ DoVerifyBatchLongKey
    \/ DoSetLongKey
    \/ DoSetVerificationKeyHash
    \/ DoClearVerificationKey
    \/ DoCleanNonces
    \/ DoSetAdmin
    \/ AdvanceLedger

LongKeySpec == Init /\ [][LongKeyNext]_vars

\* The same contract over more ledgers, so that clean_nonces can be called
\* with a cutoff above the ledger of an earlier verify and below the
\* current ledger.
CleanNoncesProofs ==
    { P(<<1, 1>>, <<MaxCellId, MinGridSize>>), P(<<2, 2>>, <<MaxCellId, MaxGridSize>>) }

CleanNoncesBatches ==
    { << <<P(<<1, 1>>, <<MaxCellId, MinGridSize>>),
           P(<<2, 2>>, <<MaxCellId, MaxGridSize>>)>>, <<MaxCellId, MaxCellId>> >> }

DoVerifyCleanNonces == VerifyFrom(CleanNoncesProofs, {MaxCellId})

DoVerifyBatchCleanNonces == VerifyBatchFrom(CleanNoncesBatches)

DoSetGoodKey == SetKeyFrom({GoodKey})

DoCleanNoncesUpTo == CleanNoncesFrom(0..MaxCleanLedger)

AdvanceCleanLedger == AdvanceLedgerTo(MaxCleanLedger)

CleanNoncesNext ==
    \/ DoInit
    \/ DoVerifyCleanNonces
    \/ DoVerifyBatchCleanNonces
    \/ DoSetGoodKey
    \/ DoSetVerificationKeyHash
    \/ DoClearVerificationKey
    \/ DoCleanNoncesUpTo
    \/ DoSetAdmin
    \/ AdvanceCleanLedger

CleanNoncesSpec == Init /\ [][CleanNoncesNext]_vars

\* The same contract driven with batches at the size limit: of exactly
\* MAX_BATCH_SIZE items, of one item more, and with lengths that differ.
Repeat(x, n) == [i \in 1..n |-> x]

FullBatchProofs ==
    Append(Repeat(P(<<1, 1>>, <<MaxCellId, MinGridSize>>), MaxBatchSize - 1),
           P(<<2, 2>>, <<MaxCellId, MaxGridSize>>))

SizeLimitBatches ==
    { << FullBatchProofs, Repeat(MaxCellId, MaxBatchSize) >>,
      << Append(FullBatchProofs, P(<<2, 2>>, <<MaxCellId, MaxGridSize>>)),
         Repeat(MaxCellId, MaxBatchSize + 1) >>,
      << FullBatchProofs, Repeat(MaxCellId, MaxBatchSize + 1) >>,
      << FullBatchProofs, Repeat(MaxCellId, MaxBatchSize - 1) >>,
      << <<P(<<2, 2>>, <<MaxCellId, MaxGridSize>>)>>, <<MaxCellId>> >> }

DoVerifySizeLimit == VerifyFrom({P(<<1, 1>>, <<MaxCellId, MinGridSize>>)}, {MaxCellId})

DoVerifyBatchSizeLimit == VerifyBatchFrom(SizeLimitBatches)

SizeLimitNext ==
    \/ DoInit
    \/ DoVerifySizeLimit
    \/ DoVerifyBatchSizeLimit
    \/ DoSetGoodKey
    \/ DoClearVerificationKey
    \/ DoSetAdmin

SizeLimitSpec == Init /\ [][SizeLimitNext]_vars

\* GeoTrustMatch together with the verifier it invokes from join_session.
\* Players join the first session created.
SessionIds == {1}

JoinCellIds == {MaxCellId}

AssetTags == {1}

Countries == {1}

LocationProofs ==
    { None,
      Some(P(<<1, 1>>, <<MaxCellId, MinGridSize>>)),
      Some(P(<<2, 1>>, <<MaxCellId, MinGridSize>>)),
      Some(P(<<1, 1>>, <<MaxCellId - 1, MinGridSize>>)) }

DoInitVerifier == InitFrom(MatchAdmins)

DoJoinSession == JoinFrom(SessionIds, JoinCellIds, AssetTags, Countries, LocationProofs)

MatchNext ==
    \/ DoMatchInit
    \/ DoSetVerifier
    \/ DoSetGameHub
    \/ DoCreateSession
    \/ DoJoinSession
    \/ DoInitVerifier
    \/ DoSetGoodKey

MatchSpec == Init /\ [][MatchNext]_vars

\* The verifier driven with two well-formed keys, so that an installed key
\* is replaced by a different one.
ReplaceKeyPool == {GoodKey, OtherKey}

DoSetReplaceKey == SetKeyFrom(ReplaceKeyPool)

ReplaceKeyNext ==
    \/ DoInit
    \/ DoSetReplaceKey
    \/ DoSetVerificationKeyHash
    \/ DoClearVerificationKey
    \/ DoSetAdmin

ReplaceKeySpec == Init /\ [][ReplaceKeyNext]_vars

\* GeoTrustMatch creating several sessions, with players joining them and
\* init called again in between.
CreatedSessionIds == 1..MaxCreated

DoCreateSessions == CreateSessionUpTo(MaxCreated)

DoJoinCreated == JoinFrom(CreatedSessionIds, JoinCellIds, AssetTags, Countries, {None})

SessionIdNext ==
    \/ DoMatchInit
    \/ DoCreateSessions
    \/ DoJoinCreated

SessionIdSpec == Init /\ [][SessionIdNext]_vars

\* GeoTrustMatch with two players joining a session from cells at both
\* ends and in the middle of the u32 range, and the match then resolved.
\* The cells are 0, 1, 2^31 - 1, 2^31 and 2^32 - 1.
ResolveCellIds ==
    { <<0, 0>>, <<0, 1>>,
      <<HalfWord \div 2 - 1, HalfWord - 1>>, <<HalfWord \div 2, 0>>,
      <<HalfWord - 1, HalfWord - 1>> }

ResolveAssetTags == {1, 2}

DoJoinResolve == JoinFrom(SessionIds, ResolveCellIds, ResolveAssetTags, Countries, {None})

DoResolveMatch == ResolveFrom(SessionIds)

ResolveNext ==
    \/ DoMatchInit
    \/ DoCreateSession
    \/ DoJoinResolve
    \/ DoResolveMatch

ResolveSpec == Init /\ [][ResolveNext]_vars

\* GeoTrustMatch with the country policy changed by the admin and players
\* of two countries joining.
PolicyCountries == {1, 2}

DoSetCountryAllowed == SetCountryAllowedFrom(PolicyCountries)

DoJoinFromCountry == JoinFrom(SessionIds, JoinCellIds, AssetTags, PolicyCountries, {None})

PolicyNext ==
    \/ DoMatchInit
    \/ DoSetCountryAllowed
    \/ DoSetDefaultAllowAll
    \/ DoCreateSession
    \/ DoJoinFromCountry

PolicySpec == Init /\ [][PolicyNext]_vars

\* The verifier driven with keys of 2, 3 and more than 1000 input
\* commitments and with proofs of 2, 3 and more than 1000 public inputs
\* that differ in the first input, inside the accumulation range and
\* beyond it.
ShortIcKey == Key(<<1, 1>>, <<2, 1>>, <<2, 1>>, <<1, 1>>, << <<1, 2>>, <<1, 1>>, <<2, 1>> >>)

CeilingKey ==
    Key(<<1, 1>>, <<2, 1>>, <<2, 1>>, <<1, 1>>,
        [i \in 1..(MaxIterations + 2) |-> IF i = 1 THEN <<1, 2>> ELSE <<1, 1>>])

CommitmentKeys == {GoodKey2, ShortIcKey, CeilingKey}

\* Public inputs as long as the ic of CeilingKey: the cell id, the grid
\* size, ones, then last_inside at the last index the loop reaches and
\* beyond at the two indices behind it.
LongInputs(cell_id, last_inside, beyond) ==
    [i \in 1..(MaxIterations + 2) |->
        IF i = 1 THEN cell_id
        ELSE IF i = 2 THEN MinGridSize
        ELSE IF i = MaxIterations THEN last_inside
        ELSE IF i > MaxIterations THEN beyond
        ELSE 1]

CommitmentInputs ==
    { <<cell_id, MinGridSize + 1>> : cell_id \in {MaxCellId, MaxCellId - 1} }
    \cup { <<MaxCellId, MinGridSize + 1, third>> : third \in {1, 2} }
    \cup { LongInputs(cell_id, 1, 1) : cell_id \in {MaxCellId, MaxCellId - 1} }
    \cup { LongInputs(MaxCellId, 2, 1), LongInputs(MaxCellId, 1, 2) }

CommitmentProofs == { P(<<1, 1>>, inputs) : inputs \in CommitmentInputs }

DoSetCommitmentKey == SetKeyFrom(CommitmentKeys)

DoVerifyCommitment == VerifyFrom(CommitmentProofs, {MaxCellId, MaxCellId - 1})

CommitmentNext ==
    \/ DoInitVerifier
    \/ DoSetCommitmentKey
    \/ DoVerifyCommitment
    \/ DoClearVerificationKey

CommitmentSpec == Init /\ [][CommitmentNext]_vars

\* The country policy with admins assigned to countries: the main admin
\* delegates a country, takes the delegation back, and both admins set
\* the policy of either country.
DoSetCountryAdmin == SetCountryAdminFrom(PolicyCountries)

DoRemoveCountryAdmin == RemoveCountryAdminFrom(PolicyCountries)

CountryAdminNext ==
    \/ DoMatchInit
    \/ DoSetCountryAdmin
    \/ DoRemoveCountryAdmin
    \/ DoSetCountryAllowed

CountryAdminSpec == Init /\ [][CountryAdminNext]_vars

\* GeoTrustMatch with two sessions created, joined by either player and
\* resolved, in any order; session 3 is never created.
LifecycleSessionIds == 1..(MaxLifecycle + 1)

LifecycleCellIds == { <<0, 0>> }

DoCreateLifecycle == CreateSessionUpTo(MaxLifecycle)

DoJoinLifecycle == JoinFrom(LifecycleSessionIds, LifecycleCellIds, AssetTags, Countries, {None})

DoResolveLifecycle == ResolveFrom(LifecycleSessionIds)

LifecycleNext ==
    \/ DoMatchInit
    \/ DoCreateLifecycle
    \/ DoJoinLifecycle
    \/ DoResolveLifecycle

LifecycleSpec == Init /\ [][LifecycleNext]_vars

(* ------------------------------- claims -------------------------------- *)

LastProof == last.proofs[1]

LastExpected == last.ids[1]

FreshValidProof == P(<<1, 1>>, <<MaxCellId, MinGridSize>>)

\* C1: across any sequence of calls, verify (directly or through
\* verify_batch) returns true at most once for any given proof buffer: no
\* call accepts a buffer that an earlier call has accepted.
C1_AcceptedAtMostOnce == ~last.reaccepted

\* Steps 1 to 9 of verify let the proof through on storage st: only the
\* replay lookup of step 10 is left.
ReachesReplayLookup(st, proof, expected_cell_id) ==
    /\ InputsBound(proof, expected_cell_id)
    /\ ~AllZero(ProofBytes(proof))
    /\ KeyConfigured(st)
    /\ IsSome(LoadKey(st))
    /\ Len(LoadKey(st)[1].ic) # 0
    /\ ~IcSum(LoadKey(st)[1], proof).rejected
    /\ Groth16Check(LoadKey(st)[1], proof, IcSum(LoadKey(st)[1], proof).sum) = "true"
    /\ GridSizeOk(proof.public_inputs[2])
    /\ CellIdOk(proof.public_inputs[1])

\* A proof that only the replay lookup can stop is verified for the second
\* time in a row; neither call has accepted it.
C1_Witness ==
    /\ last.op = "verify"
    /\ last.repeated
    /\ ReachesReplayLookup(last.pre, LastProof, LastExpected)
    /\ last.result = "false"
    /\ accepted = {}

\* C2: a verify(p, v) made immediately after a verify(p, v) that returned
\* true returns false.
C2_ReplayRejected ==
    (last.op = "verify" /\ last.afterAccept) => last.result = "false"

C4_RejectionHasNoEffect ==
    last.op = "verify" =>
        /\ last.result = "false" => Store = last.pre
        /\ nonces # last.pre.nonces => last.result = "true"

C4_Witness ==
    /\ last.op = "verify"
    /\ last.result = "false"
    /\ last.pre.vk = Some(GoodKey)
    /\ last.pre.vkSet = Some(TRUE)
    /\ LastProof = P(<<1, 1>>, <<MaxCellId, MinGridSize - 1>>)
    /\ LastExpected = MaxCellId
    /\ ComputeProofId(LastProof) \notin DOMAIN UnwrapOr(last.pre.nonces, EmptyMap)

\* C5: verify(p, v) returns false whenever the first public input of p
\* differs from v, whatever key is installed and whatever the ledger holds.
C5_ExpectedValueBinding ==
    (/\ last.op = "verify"
     /\ Len(LastProof.public_inputs) >= 1
     /\ LastProof.public_inputs[1] # LastExpected) => last.result = "false"

C5_Witness ==
    /\ last.op = "verify"
    /\ last.pre.vk = Some(GoodKey)
    /\ last.pre.vkSet = Some(TRUE)
    /\ LastProof = FreshValidProof
    /\ LastExpected = MaxCellId + 1
    /\ ComputeProofId(LastProof) \notin DOMAIN UnwrapOr(last.pre.nonces, EmptyMap)
    /\ last.result = "false"

\* C6: verify returns false for every proof whose grid scale is outside
\* [1_000_000, 10_000_000] or whose cell id is greater than 100_000.
C6_BoundsEnforced ==
    (/\ last.op = "verify"
     /\ Len(LastProof.public_inputs) >= 2
     /\ \/ LastProof.public_inputs[2] < MinGridSize
        \/ LastProof.public_inputs[2] > MaxGridSize
        \/ LastProof.public_inputs[1] > MaxCellId) => last.result = "false"

\* C7: verify is total: every call completes and returns true or false,
\* and never aborts.
C7_VerifyIsTotal ==
    last.op = "verify" => last.result \in {"true", "false"}

\* C8: right after a successful clear_verification_key the key and the hash
\* are absent, and from then until set_verification_key succeeds every
\* verify, direct or as an item of a batch, returns false.
C8_ClearedKeyFails ==
    /\ (last.op = "clear_verification_key" /\ last.result = "ok") =>
           /\ GetVerificationKey(Store) = None
           /\ GetVerificationKeyHash(Store) = None
    /\ (last.op = "verify" /\ last.cleared) => last.result = "false"
    /\ (last.op = "verify_batch" /\ last.cleared) =>
           \A i \in 1..Len(last.results) : last.results[i] = "false"

C8_Witness ==
    /\ last.op = "verify"
    /\ last.cleared
    /\ last.result = "false"
    /\ ReachesReplayLookup([last.pre EXCEPT !.vk = Some(GoodKey), !.vkSet = Some(TRUE)],
                           LastProof, LastExpected)

ZeroPointKey(key) ==
    \/ AllZero(key.alpha_g1)
    \/ AllZero(key.beta_g2)
    \/ AllZero(key.gamma_g2)
    \/ AllZero(key.delta_g2)
    \/ Len(key.ic) = 0

LastByAdmin == last.pre.admin = Some(last.caller)

\* C9: set_verification_key called by the admin with a key that has an
\* all-zero alpha_g1, beta_g2, gamma_g2 or delta_g2, or an empty ic, aborts
\* and leaves the storage unchanged; with four non-zero points and an ic of
\* one non-zero element it succeeds and installs the key.
C9_KeyValidation ==
    (last.op = "set_verification_key" /\ LastByAdmin) =>
        /\ ZeroPointKey(last.key[1]) =>
               (last.result = "abort" /\ Store = last.pre)
        /\ (/\ ~ZeroPointKey(last.key[1])
            /\ Len(last.key[1].ic) = 1
            /\ ~AllZero(last.key[1].ic[1])) =>
               (last.result = "ok" /\ vk = last.key /\ vkSet = Some(TRUE))

C9_Witness ==
    /\ last.op = "set_verification_key"
    /\ LastByAdmin
    /\ AllZero(last.key[1].delta_g2)
    /\ last.result = "abort"
    /\ vk = Some(GoodKey)
    /\ vkSet = Some(TRUE)

\* C10: the stored verification key, if any, has non-zero alpha_g1, beta_g2,
\* gamma_g2 and delta_g2, a non-empty ic, and every element of ic non-zero,
\* whatever the length of ic.
C10_StoredKeyWellFormed ==
    IsSome(vk) =>
        /\ ~ZeroPointKey(vk[1])
        /\ \A i \in 1..Len(vk[1].ic) : ~AllZero(vk[1].ic[i])

\* The entries of the replay ledger a storage holds.
Ledger(st) == UnwrapOr(st.nonces, EmptyMap)

\* The latest call was a clean_nonces that succeeded with a cutoff above
\* the given height.
PrunedAbove(height) ==
    /\ last.op = "clean_nonces"
    /\ last.result = "ok"
    /\ last.num[1] > height

\* C11: a proof identity present in the replay ledger before a call is
\* still present after it, with the same recorded height, unless the call
\* is a successful clean_nonces whose cutoff is above that height.
C11_EntriesPersist ==
    \A id \in DOMAIN Ledger(last.pre) :
        \/ PrunedAbove(Ledger(last.pre)[id])
        \/ /\ id \in DOMAIN Ledger(Store)
           /\ Ledger(Store)[id] = Ledger(last.pre)[id]

\* The latest call is a clean_nonces that succeeded.
Cleaned == last.op = "clean_nonces" /\ last.result = "ok"

\* C12: after a successful clean_nonces(h) the replay ledger holds exactly
\* the entries it held before the call whose recorded height is at least
\* h, each with its height unchanged.
C12_PrunedExactly ==
    Cleaned =>
        /\ DOMAIN Ledger(Store) =
               { id \in DOMAIN Ledger(last.pre) : Ledger(last.pre)[id] >= last.num[1] }
        /\ \A id \in DOMAIN Ledger(Store) : Ledger(Store)[id] = Ledger(last.pre)[id]

\* C13: clean_nonces(h) aborts and leaves the storage as it was when h = 0
\* or h is at least the current ledger sequence, and succeeds for every h
\* with 0 < h < current ledger sequence when the admin calls it.
C13_PruningBounds ==
    last.op = "clean_nonces" =>
        /\ (last.num[1] = 0 \/ last.num[1] >= last.seq) =>
               (last.result = "abort" /\ Store = last.pre)
        /\ (0 < last.num[1] /\ last.num[1] < last.seq /\ LastByAdmin) =>
               last.result = "ok"

\* The admin has pruned with a cutoff strictly between 0 and the current
\* ledger sequence.
C13_Witness ==
    /\ Cleaned
    /\ LastByAdmin
    /\ 0 < last.num[1]
    /\ last.num[1] < last.seq

\* An item of the latest batch makes verify trap; the pairing check comes
\* before the replay lookup, so this does not depend on the items before.
ItemTraps ==
    \E i \in 1..Len(last.proofs) :
        Verify(last.pre, last.proofs[i], last.ids[i], last.seq).result = "abort"

\* C14: verify_batch aborts, with no item verified and the storage as it
\* was, when the two sequences differ in length or hold more than 100
\* items; a batch of exactly 100 items with equal lengths is processed:
\* unless an item traps, it returns 100 results.
C14_BatchSizeChecks ==
    last.op = "verify_batch" =>
        /\ (Len(last.proofs) # Len(last.ids) \/ Len(last.proofs) > MaxBatchSize) =>
               (last.result = "abort" /\ last.results = <<>> /\ Store = last.pre)
        /\ (Len(last.proofs) = Len(last.ids) /\ Len(last.proofs) = MaxBatchSize) =>
               \/ last.result = "ok" /\ Len(last.results) = MaxBatchSize
               \/ ItemTraps

\* A batch of exactly 100 items has been processed up to its last item,
\* which passed every check before the replay lookup.
C14_Witness ==
    /\ last.op = "verify_batch"
    /\ Len(last.proofs) = MaxBatchSize
    /\ Len(last.ids) = MaxBatchSize
    /\ last.result = "ok"
    /\ Len(last.results) = MaxBatchSize
    /\ ReachesReplayLookup(last.pre, last.proofs[MaxBatchSize], last.ids[MaxBatchSize])

\* The first n items verified by n separate verify invocations, one after
\* another in input order, starting from storage st: the result of each
\* and the storage left. An invocation that traps leaves the storage as it
\* found it.
RECURSIVE SequentialVerify(_, _, _, _, _)
SequentialVerify(st, proofs, expected_cell_ids, n, seq) ==
    IF n = 0 THEN [results |-> <<>>, store |-> st]
    ELSE LET before == SequentialVerify(st, proofs, expected_cell_ids, n - 1, seq)
             r == Verify(before.store, proofs[n], expected_cell_ids[n], seq)
         IN  [results |-> Append(before.results, r.result), store |-> r.store]

LastSequential ==
    SequentialVerify(last.pre, last.proofs, last.ids, Len(last.proofs), last.seq)

\* The latest call is a verify_batch that returned.
BatchReturned == last.op = "verify_batch" /\ last.result = "ok"

\* C15: a verify_batch that is accepted returns as many results as it has
\* items, the i-th being what verify returns for item i when the items
\* are verified one after another in input order from the same storage,
\* and it leaves the storage those sequential calls leave.
C15_BatchIsSequentialVerify ==
    BatchReturned =>
        /\ Len(last.results) = Len(last.proofs)
        /\ last.results = LastSequential.results
        /\ Store = LastSequential.store

\* A batch of two items has returned; its first item fails the check of
\* the expected cell id and its second reaches the replay lookup.
C15_Witness ==
    /\ BatchReturned
    /\ Len(last.proofs) = 2
    /\ last.proofs[1].public_inputs[1] # last.ids[1]
    /\ ReachesReplayLookup(last.pre, last.proofs[2], last.ids[2])
    /\ last.results = <<"false", "false">>

\* The identities of the items of the latest batch whose result is true.
AcceptedIds ==
    { ComputeProofId(last.proofs[i]) :
        i \in { j \in 1..Len(last.results) : last.results[j] = "true" } }

\* The latest call is a verify_batch of [p_valid, p_replay]: the first
\* proof was never accepted and passes every check of verify, the second
\* was accepted by an earlier call.
ValidThenReplay ==
    /\ last.op = "verify_batch"
    /\ Len(last.proofs) = 2
    /\ Len(last.ids) = 2
    /\ ProofBytes(last.proofs[1]) \notin last.preAccepted
    /\ Verify(last.pre, last.proofs[1], last.ids[1], last.seq).result = "true"
    /\ ProofBytes(last.proofs[2]) \in last.preAccepted

\* C16: verify_batch([p_valid, p_replay]) returns [true, false] and adds
\* exactly the identity of p_valid to the replay ledger; a batch that
\* returns adds exactly the identities of its items whose result is true
\* and changes no entry that was there.
C16_BatchIndependence ==
    /\ ValidThenReplay =>
           /\ last.result = "ok"
           /\ last.results = <<"true", "false">>
           /\ DOMAIN Ledger(Store) =
                  DOMAIN Ledger(last.pre) \cup {ComputeProofId(last.proofs[1])}
    /\ BatchReturned =>
           /\ DOMAIN Ledger(Store) = DOMAIN Ledger(last.pre) \cup AcceptedIds
           /\ \A id \in DOMAIN Ledger(last.pre) :
                  Ledger(Store)[id] = Ledger(last.pre)[id]

AdminOps ==
    { "set_verification_key", "set_verification_key_hash",
      "clear_verification_key", "clean_nonces", "set_admin" }

\* C17: each of set_verification_key, set_verification_key_hash,
\* clear_verification_key, clean_nonces and set_admin aborts and leaves the
\* storage as it was when its caller is not the stored admin; a successful
\* set_admin(new) stores new as the admin, and a call by the admin it has
\* just replaced aborts.
C17_AdminOnly ==
    last.op \in AdminOps =>
        /\ (~LastByAdmin \/ last.handover) =>
               (last.result = "abort" /\ Store = last.pre)
        /\ (last.op = "set_admin" /\ last.result = "ok") =>
               admin = Some(last.addr)

\* The admin replaced by the set_admin call just before tries to clear
\* the key of a contract that has one.
C17_Witness ==
    /\ last.handover
    /\ last.op = "clear_verification_key"
    /\ IsSome(last.pre.vk)
    /\ last.result = "abort"

\* The storage is the one a single init call leaves on a fresh contract.
OnlyInitCalled(st) ==
    \E a \in Addresses :
        st = [admin |-> Some(a), vkSet |-> Some(FALSE), vk |-> None,
              vkHash |-> None, nonces |-> Some(EmptyMap)]

\* C18: on a verifier on which only init has been called, verify(p, c)
\* returns true for a proof p whose bytes are not all zero and whose
\* public inputs are [c, 1000000] with c the expected cell id.
C18_TestVerify ==
    ( /\ last.op = "verify"
      /\ OnlyInitCalled(last.pre)
      /\ ~AllZero(ProofBytes(LastProof))
      /\ LastProof.public_inputs = <<LastExpected, MinGridSize>> )
    => last.result = "true"

\* The storages the contract can be in, one administrative call after
\* storage st, with the key and the replay ledger of st: after set_admin,
\* after set_verification_key_hash, and after set_verification_key of the
\* key that is already stored (a call that aborts leaves st itself).
SameKeyAndLedger(st) ==
    { SetAdmin(st, a, b).store : a \in Addresses, b \in Addresses }
    \cup { SetVerificationKeyHash(st, a, h).store : a \in Addresses, h \in HashPool }
    \cup { SetVerificationKey(st, a, st.vk[1]).store :
              a \in { x \in Addresses : IsSome(st.vk) } }

\* The replay ledger the latest verify call left, given its result.
LedgerAfterLast ==
    IF last.result = "true"
    THEN MapSet(Ledger(last.pre), ComputeProofId(LastProof), last.seq)
    ELSE Ledger(last.pre)

\* C19: verify is a function of the installed key, the replay ledger, the
\* proof and the expected value. From every storage that holds the key
\* and the replay ledger that the latest verify call started from, verify
\* of the same proof and expected value gives the result that call gave
\* and makes the ledger change that call made, whatever else differs.
C19_VerifyDependsOnKeyAndLedgerOnly ==
    last.op = "verify" =>
        \A other \in SameKeyAndLedger(last.pre) :
            /\ other.vk = last.pre.vk
            /\ Ledger(other) = Ledger(last.pre)
            /\ Verify(other, LastProof, LastExpected, last.seq).result = last.result
            /\ Ledger(Verify(other, LastProof, LastExpected, last.seq).store)
                   = LedgerAfterLast

\* The latest call is a join_session with a location proof, made while a
\* verifier is configured, for which the verifier's verify returns false.
JoinRefusedByVerifier ==
    /\ lastMatch.op = "join_session"
    /\ IsSome(lastMatch.location_proof)
    /\ IsSome(lastMatch.pre.verifier)
    /\ Verify(lastMatch.verifierPre, lastMatch.location_proof[1],
              lastMatch.cell_id, lastMatch.seq).result = "false"

\* C20: a join_session with a location proof, made while a verifier is
\* configured, for which the verifier's verify returns false, aborts and
\* changes nothing: every session, and so its players and its state, is
\* as before the call.
C20_JoinRejectedOnFalse ==
    JoinRefusedByVerifier =>
        /\ lastMatch.result = "abort"
        /\ matchStore = lastMatch.pre

\* The verifier refuses the proof of a join that nothing else stops: the
\* country is allowed, the first public input is the cell id, and the
\* session exists, is Waiting and has a free slot for the caller.
C20_Witness ==
    /\ JoinRefusedByVerifier
    /\ IsCountryAllowedInternal(lastMatch.pre, 1)
    /\ lastMatch.location_proof[1].public_inputs[1] = lastMatch.cell_id
    /\ lastMatch.session_id \in DOMAIN lastMatch.pre.sessions
    /\ lastMatch.pre.sessions[lastMatch.session_id].state = "Waiting"
    /\ lastMatch.pre.sessions[lastMatch.session_id].player1 # Some(lastMatch.caller)
    /\ IsSome(lastMatch.verifierPre.vk)

\* C21: immediately after set_verification_key(k) succeeds,
\* get_verification_key returns exactly k, all five fields, whatever key
\* was stored before, and get_verification_key_hash returns the SHA-256
\* digest of k.alpha_g1.
C21_KeyReadBack ==
    (last.op = "set_verification_key" /\ last.result = "ok")
        => /\ GetVerificationKey(Store) = last.key
           /\ GetVerificationKeyHash(Store) = Some(Sha256(last.key[1].alpha_g1))

\* A different key was stored when set_verification_key succeeded.
C21_Witness ==
    /\ last.op = "set_verification_key"
    /\ last.result = "ok"
    /\ IsSome(last.pre.vk)
    /\ last.pre.vk # last.key
    /\ last.pre.vkHash # Some(Sha256(last.key[1].alpha_g1))

\* The ids of the sessions created before the latest invocation.
CreatedBefore == DOMAIN lastMatch.pre.sessions

\* C22: the first create_session on a fresh contract returns 1 and every
\* later one returns the previous id plus 1, so the id returned is new and
\* greater than every id returned before; the session stored under it is
\* Waiting and has no players.
C22_SessionIds ==
    (lastMatch.op = "create_session")
        => /\ lastMatch.result = "ok"
           /\ IsSome(lastMatch.value)
           /\ LET id == lastMatch.value[1]
              IN  /\ CreatedBefore = {} => id = 1
                  /\ CreatedBefore # {} => \E prev \in CreatedBefore :
                        /\ \A other \in CreatedBefore : other <= prev
                        /\ id = prev + 1
                  /\ id \notin CreatedBefore
                  /\ \A other \in CreatedBefore : other < id
                  /\ id \in DOMAIN matchStore.sessions
                  /\ matchStore.sessions[id].state = "Waiting"
                  /\ matchStore.sessions[id].player1 = None
                  /\ matchStore.sessions[id].player2 = None

\* A third session is created after two players have joined an earlier one.
C22_Witness ==
    /\ lastMatch.op = "create_session"
    /\ lastMatch.value = Some(3)
    /\ \E other \in CreatedBefore : lastMatch.pre.sessions[other].state = "Active"

\* The u32 that follows a cell id, when there is one.
NextCell(cell) ==
    IF CellLow(cell) < HalfWord - 1 THEN Some(<<CellHigh(cell), CellLow(cell) + 1>>)
    ELSE IF CellHigh(cell) < HalfWord - 1 THEN Some(<<CellHigh(cell) + 1, 0>>)
    ELSE None

\* The absolute difference of two u32 cell ids is at most 1.
EqualOrAdjacent(c1, c2) ==
    c1 = c2 \/ NextCell(c1) = Some(c2) \/ NextCell(c2) = Some(c1)

ResolvedSession == lastMatch.pre.sessions[lastMatch.session_id]

\* C23: a resolve_match that returns on an Active session gives matched =
\* true exactly when the asset tags of the two players are equal and the
\* absolute difference of their u32 cell ids is at most 1, and names
\* player1 the winner when matched and player2 otherwise.
C23_MatchRule ==
    (lastMatch.op = "resolve_match" /\ lastMatch.result = "ok")
        => /\ lastMatch.value[1].matched =
                (/\ ResolvedSession.p1_asset_tag = ResolvedSession.p2_asset_tag
                 /\ EqualOrAdjacent(ResolvedSession.p1_cell_id[1],
                                    ResolvedSession.p2_cell_id[1]))
           /\ lastMatch.value[1].winner =
                IF lastMatch.value[1].matched THEN ResolvedSession.player1
                ELSE ResolvedSession.player2

\* The countries on the allow list of a storage.
AllowList(ms) == DOMAIN UnwrapOr(ms.allowCnt, EmptyMap)

\* C24: while the default policy is deny, get_country_allowed(c) returns
\* Some(true) right after set_country_allowed(c, true) and None for every
\* country that is not on the allow list, the never-allowed ones among
\* them; and get_country_allowed never returns Some(false).
C24_CountryPolicy ==
    /\ (/\ lastMatch.op = "set_country_allowed"
        /\ lastMatch.result = "ok"
        /\ lastMatch.allowed = Some(TRUE)
        /\ ~UnwrapOr(matchStore.defAllow, FALSE))
          => /\ GetCountryAllowed(matchStore, lastMatch.country[1]) = Some(TRUE)
             /\ \A d \in PolicyCountries \ AllowList(matchStore) :
                    GetCountryAllowed(matchStore, d) = None
    /\ \A c \in PolicyCountries : GetCountryAllowed(matchStore, c) # Some(FALSE)

\* Country c has just been allowed under default deny and another country
\* is not on the allow list.
C24_Witness ==
    /\ lastMatch.op = "set_country_allowed"
    /\ lastMatch.result = "ok"
    /\ lastMatch.allowed = Some(TRUE)
    /\ matchStore.defAllow = Some(FALSE)
    /\ lastMatch.country[1] \notin AllowList(lastMatch.pre)
    /\ PolicyCountries \ AllowList(matchStore) # {}

\* C25: whenever verify(p, v) returns true, in the storage the call started
\* from: p has at least 2 public inputs, the first of them is v, the proof
\* bytes are not all zero, the key-configured flag is set and a key is
\* stored, the pairing check over (A, B), (-alpha, beta), (-C, gamma),
\* (-IC, delta) holds for that key, the grid scale is in
\* [1_000_000, 10_000_000], the cell id is at most 100_000, and the proof
\* identity is not in the replay ledger.
C25_AcceptanceConditions ==
    (last.op = "verify" /\ last.result = "true")
        => /\ Len(LastProof.public_inputs) >= 2
           /\ LastProof.public_inputs[1] = LastExpected
           /\ \E i \in 1..Len(ProofBytes(LastProof)) : ProofBytes(LastProof)[i] # 0
           /\ last.pre.vkSet = Some(TRUE)
           /\ IsSome(last.pre.vk)
           /\ Groth16Check(last.pre.vk[1], LastProof,
                           IcSum(last.pre.vk[1], LastProof).sum) = "true"
           /\ LastProof.public_inputs[2] >= MinGridSize
           /\ LastProof.public_inputs[2] <= MaxGridSize
           /\ LastProof.public_inputs[1] <= MaxCellId
           /\ ComputeProofId(LastProof) \notin DOMAIN Ledger(last.pre)

\* C26: verify returns false whenever the ic of the installed key has
\* fewer elements than the proof has public inputs.
C26_ShortIcRejected ==
    (/\ last.op = "verify"
     /\ IsSome(last.pre.vk)
     /\ last.pre.vkSet = Some(TRUE)
     /\ Len(last.pre.vk[1].ic) < Len(LastProof.public_inputs))
        => last.result = "false"

\* The latest call is a verify that went as far as the input commitment.
ReachedCommitment ==
    /\ last.op = "verify"
    /\ Len(LastProof.public_inputs) >= 2
    /\ LastProof.public_inputs[1] = LastExpected
    /\ ~AllZero(ProofBytes(LastProof))
    /\ last.pre.vkSet = Some(TRUE)
    /\ IsSome(last.pre.vk)
    /\ Len(last.pre.vk[1].ic) > 0

\* min(len(public_inputs), len(ic), 1000)
CommitmentBound(ic, public_inputs) ==
    Min(Min(Len(public_inputs), Len(ic)), MaxIterations)

\* ic[0] plus the sum over i from 1 to the bound - 1 of
\* public_inputs[i] * ic[i], in the group of order 5: the sum is taken by
\* counting how many terms have each of the values 1 to 4.
ExpectedCommitment(ic, public_inputs) ==
    LET Term(k) == ((public_inputs[k] % GroupOrder) * DecodeG1(ic[k])) % GroupOrder
        Count(v) == Cardinality({k \in 2..CommitmentBound(ic, public_inputs) : Term(k) = v})
    IN  (DecodeG1(ic[1]) + Count(1) + 2 * Count(2) + 3 * Count(3) + 4 * Count(4))
            % GroupOrder

\* Two proofs have the same bound and the same public inputs from index 1
\* up to the bound - 1.
SameInsideBound(ic, p, q) ==
    /\ CommitmentBound(ic, p.public_inputs) = CommitmentBound(ic, q.public_inputs)
    /\ \A k \in 2..CommitmentBound(ic, p.public_inputs) :
            p.public_inputs[k] = q.public_inputs[k]

\* C27: the input commitment used in the pairing check is ic[0] plus the
\* sum over i from 1 to min(len(public_inputs), len(ic), 1000) - 1 of
\* public_inputs[i] * ic[i]; the accumulation takes at most 999 steps; and
\* proofs that differ only in public_inputs[0] or at indices at or beyond
\* the bound have the same commitment.
C27_InputCommitment ==
    ReachedCommitment
        => LET ic == last.pre.vk[1].ic
               acc == IcSum(last.pre.vk[1], LastProof)
           IN  /\ ~acc.rejected
               /\ acc.sum = ExpectedCommitment(ic, LastProof.public_inputs)
               /\ acc.steps = CommitmentBound(ic, LastProof.public_inputs) - 1
               /\ acc.steps <= MaxIterations - 1
               /\ \A q \in CommitmentProofs :
                     SameInsideBound(ic, LastProof, q)
                        => IcSum(last.pre.vk[1], q).sum = acc.sum

\* verify reached the commitment with more than 1000 public inputs and a
\* key with more than 1000 commitments, and proofs with another first
\* input and with other inputs beyond the bound exist.
C27_Witness ==
    /\ ReachedCommitment
    /\ Len(last.pre.vk[1].ic) > MaxIterations
    /\ Len(LastProof.public_inputs) > MaxIterations
    /\ IcSum(last.pre.vk[1], LastProof).steps = MaxIterations - 1
    /\ \E q \in CommitmentProofs :
          /\ SameInsideBound(last.pre.vk[1].ic, LastProof, q)
          /\ q.public_inputs[1] # LastProof.public_inputs[1]
    /\ \E q \in CommitmentProofs :
          /\ SameInsideBound(last.pre.vk[1].ic, LastProof, q)
          /\ q.public_inputs[MaxIterations + 1] # LastProof.public_inputs[MaxIterations + 1]

\* C28: a verify that returns true leaves the replay ledger it found plus
\* one entry, from the identity of the proof (the digest of its bytes) to
\* the ledger sequence of the call; no other entry changes, and the key,
\* the hash, the flag and the admin are as before.
C28_AcceptanceEffect ==
    (last.op = "verify" /\ last.result = "true") =>
        /\ ComputeProofId(LastProof) \notin DOMAIN Ledger(last.pre)
        /\ Ledger(Store) = MapSet(Ledger(last.pre), ComputeProofId(LastProof), last.seq)
        /\ vk = last.pre.vk
        /\ vkHash = last.pre.vkHash
        /\ vkSet = last.pre.vkSet
        /\ admin = last.pre.admin

\* C29: a verify of a proof whose bytes were accepted before returns false
\* whatever its public inputs and expected value are, and every identity
\* in the replay ledger is the digest of proof bytes that were accepted.
C29_IdentityOfBytes ==
    /\ (last.op = "verify" /\ ProofBytes(LastProof) \in last.preAccepted) =>
           last.result = "false"
    /\ \A id \in DOMAIN Ledger(Store) : \E bytes \in accepted : id = Sha256(bytes)

\* C30: right after a successful set_country_allowed(c, false) country c
\* is not allowed, whatever the default policy is: get_country_allowed(c)
\* returns None and every join_session with country c aborts.
C30_DisallowedCountry ==
    (/\ lastMatch.op = "set_country_allowed"
     /\ lastMatch.result = "ok"
     /\ lastMatch.allowed = Some(FALSE))
      => /\ GetCountryAllowed(matchStore, lastMatch.country[1]) = None
         /\ ~IsCountryAllowedInternal(matchStore, lastMatch.country[1])
         /\ \A caller \in Addresses, session_id \in SessionIds,
               cell_id \in JoinCellIds, asset_tag \in AssetTags, hub_ok \in BOOLEAN :
                JoinSession(matchStore, Store, caller, session_id, cell_id, asset_tag,
                            lastMatch.country[1], None, ledgerSeq, hub_ok).result = "abort"

\* The admin assigned to a country in a storage, if any.
CountryAdminOf(ms, country) ==
    IF country \in DOMAIN UnwrapOr(ms.cntAdm, EmptyMap)
    THEN Some(UnwrapOr(ms.cntAdm, EmptyMap)[country])
    ELSE None

\* C31: set_country_allowed(c, v) succeeds exactly when its caller is the
\* main admin or the admin assigned to country c; so the main admin
\* succeeds also when c has an admin of its own, and the admin of c alone
\* does not succeed for another country.
C31_CountryPolicyAuthority ==
    lastMatch.op = "set_country_allowed" =>
        ( lastMatch.result = "ok"
          <=> \/ lastMatch.pre.admin = Some(lastMatch.caller)
              \/ CountryAdminOf(lastMatch.pre, lastMatch.country[1])
                     = Some(lastMatch.caller) )

\* C32: once init has set the admin, the admin changes only through a
\* set_admin call by the current admin, and a call that the current admin
\* has not authorised, a second init by another party among them, leaves
\* the admin and the key-configured flag as they were and removes or
\* changes no entry of the replay ledger.
C32_AdminAuthority ==
    (last.op # "none" /\ IsSome(last.pre.admin)) =>
        /\ admin # last.pre.admin => (last.op = "set_admin" /\ LastByAdmin)
        /\ ~LastByAdmin =>
               /\ admin = last.pre.admin
               /\ vkSet = last.pre.vkSet
               /\ \A id \in DOMAIN Ledger(last.pre) :
                      /\ id \in DOMAIN Ledger(Store)
                      /\ Ledger(Store)[id] = Ledger(last.pre)[id]

\* C33: in every reachable state the key-configured flag is true exactly
\* when a verification key is stored, that is when get_verification_key
\* returns a key.
C33_FlagMeansKey ==
    KeyConfigured(Store) <=> IsSome(GetVerificationKey(Store))

\* C34: in every reachable state in which a verification key is stored,
\* get_verification_key_hash returns the SHA-256 digest of the alpha_g1 of
\* that key, and when no key is stored it returns None.
C34_HashDescribesKey ==
    IF IsSome(GetVerificationKey(Store))
    THEN GetVerificationKeyHash(Store) = Some(Sha256(GetVerificationKey(Store)[1].alpha_g1))
    ELSE GetVerificationKeyHash(Store) = None

\* C35: set_verification_key, set_verification_key_hash,
\* clear_verification_key and set_admin leave the Nonces slot as they found
\* it, and a verify of proof bytes accepted before does not return true,
\* whatever happened to the key in between.
C35_KeyChangesKeepLedger ==
    /\ last.op \in { "set_verification_key", "set_verification_key_hash",
                     "clear_verification_key", "set_admin" } =>
           nonces = last.pre.nonces
    /\ \A i \in 1..Len(last.results) :
           ProofBytes(last.proofs[i]) \in last.preAccepted => last.results[i] # "true"

\* A session state is kept or moves one step forward.
Forward(before, after) ==
    \/ after = before
    \/ before = "Waiting" /\ after = "Active"
    \/ before = "Active" /\ after = "Ended"

\* The latest call is a join_session on session s that returned.
JoinedSession(s) ==
    /\ lastMatch.op = "join_session"
    /\ lastMatch.result = "ok"
    /\ lastMatch.session_id = s

\* The latest call is a resolve_match on session s that returned.
ResolvedNow(s) ==
    /\ lastMatch.op = "resolve_match"
    /\ lastMatch.result = "ok"
    /\ lastMatch.session_id = s

\* The latest call names a session that exists and is in the given state.
CalledOnState(state) ==
    /\ lastMatch.session_id \in DOMAIN lastMatch.pre.sessions
    /\ lastMatch.pre.sessions[lastMatch.session_id].state = state

\* C36: across every call a session stays and its state is kept or moves
\* forward: from Waiting to Active exactly when a second player, different
\* from player1, joins, and from Active to Ended exactly when resolve_match
\* returns; an Ended session never changes; join_session aborts unless the
\* session exists and is Waiting, resolve_match aborts unless it exists and
\* is Active, so it returns at most once per session; and every Active or
\* Ended session has two distinct players.
C36_SessionLifecycle ==
    /\ \A s \in DOMAIN lastMatch.pre.sessions :
           /\ s \in DOMAIN matchStore.sessions
           /\ Forward(lastMatch.pre.sessions[s].state, matchStore.sessions[s].state)
           /\ (/\ lastMatch.pre.sessions[s].state = "Waiting"
               /\ matchStore.sessions[s].state = "Active")
                <=> (/\ JoinedSession(s)
                     /\ IsSome(lastMatch.pre.sessions[s].player1)
                     /\ lastMatch.pre.sessions[s].player1 # Some(lastMatch.caller))
           /\ (/\ lastMatch.pre.sessions[s].state = "Active"
               /\ matchStore.sessions[s].state = "Ended")
                <=> ResolvedNow(s)
           /\ lastMatch.pre.sessions[s].state = "Ended" =>
                  matchStore.sessions[s] = lastMatch.pre.sessions[s]
    /\ (lastMatch.op = "join_session" /\ ~CalledOnState("Waiting")) =>
           lastMatch.result = "abort"
    /\ (lastMatch.op = "resolve_match" /\ ~CalledOnState("Active")) =>
           lastMatch.result = "abort"
    /\ \A s \in DOMAIN matchStore.sessions :
           matchStore.sessions[s].state \in {"Active", "Ended"} =>
               /\ IsSome(matchStore.sessions[s].player1)
               /\ IsSome(matchStore.sessions[s].player2)
               /\ matchStore.sessions[s].player1 # matchStore.sessions[s].player2

\* resolve_match is called again on a session that an earlier resolve_match
\* has ended, while the other session is still Waiting with one player,
\* and aborts.
C36_Witness ==
    /\ lastMatch.op = "resolve_match"
    /\ CalledOnState("Ended")
    /\ lastMatch.result = "abort"
    /\ \E s \in DOMAIN matchStore.sessions :
           /\ matchStore.sessions[s].state = "Waiting"
           /\ IsSome(matchStore.sessions[s].player1)

\* The verifier, called on its own storage by the latest join_session,
\* accepts the proof submitted.
JoinProofAccepted ==
    /\ lastMatch.op = "join_session"
    /\ IsSome(lastMatch.location_proof)
    /\ IsSome(lastMatch.pre.verifier)
    /\ Verify(lastMatch.verifierPre, lastMatch.location_proof[1],
              lastMatch.cell_id, lastMatch.seq).result = "true"

\* C37: a join_session that aborts after the verifier has accepted its
\* proof leaves the storage of both contracts as it was, the replay ledger
\* included, and the verifier would accept the same proof again.
C37_AbortedJoinKeepsProof ==
    (JoinProofAccepted /\ lastMatch.result = "abort") =>
        /\ matchStore = lastMatch.pre
        /\ Store = lastMatch.verifierPre
        /\ Verify(Store, lastMatch.location_proof[1],
                  lastMatch.cell_id, ledgerSeq).result = "true"

====
